---- MODULE Spec2Model ----
(***************************************************************************)
(* State-machine model of the secure-storage repository: the DHT tracker   *)
(* (routing table + REST routes), the storage nodes (chunk store), the     *)
(* gateway (upload / download pipeline, replication manager) and the file  *)
(* registry the gateway publishes to.                                      *)
(*                                                                         *)
(* Bytes are small integers, byte strings are sequences of them.  SHA-256  *)
(* is modelled as a collision-free symbolic encoding into integer          *)
(* sequences, AES-256-CBC as a symbolic blob carrying iv, key and          *)
(* plaintext (decryption under another key fails or yields garbage).       *)
(***************************************************************************)
EXTENDS Integers, Sequences, FiniteSets, TLC

\* ------------------------------------------------------------------ bounds
MaxTicks == 2
MaxUploads == 1
MaxCalls == 2
MaxLeaves == 4
MaxBytes == 4

\* ------------------------------------------------- configuration constants
\* NODE_STALE_TIMEOUT (seconds)
StaleTimeout == 60
\* seconds by which the modelled clock advances in one step
TickStep == 60
\* CHUNK_SIZE, scaled down to keep files small
ChunkSize == 2
\* REPLICATION_FACTOR, scaled down so that three peers exceed it
ReplicationFactor == 2
\* a plaintext byte that decryption under a wrong key may produce
GarbageByte == 99
KEY_SIZE == 32
BLOCK_SIZE == 16
IV_SIZE == 16

Peers == {"n1", "n2", "n3"}
Targets == {"t1", "t2"}
Filenames == {"a.txt"}
Files == {<<>>, <<1>>, <<1, 2, 3>>}

VARIABLES now, nodes, chunk_locations, last_evicted, dirResp,
          running, chunk_store, registry, receipts, gwResp, uploadCount, mgrResp,
          nodeResp, calls, requests, serial, probe

vars == <<now, nodes, chunk_locations, last_evicted, dirResp,
          running, chunk_store, registry, receipts, gwResp, uploadCount, mgrResp,
          nodeResp, calls, requests, serial, probe>>

dirVars == <<nodes, chunk_locations, last_evicted, dirResp>>
nodeVars == <<running, chunk_store>>
gwVars == <<registry, receipts, gwResp, uploadCount>>

\* ------------------------------------------------------- generic helpers
Range(s) == {s[i] : i \in 1..Len(s)}

Min(a, b) == IF a <= b THEN a ELSE b

\* s[:n] of a Python list
Take(s, n) == SubSeq(s, 1, Min(n, Len(s)))

RECURSIVE FilterSeq(_, _)
\* [x for x in s if x.node_id not in drop], order preserved
FilterSeq(s, drop) ==
    IF s = <<>> THEN <<>>
    ELSE IF Head(s).node_id \in drop THEN FilterSeq(Tail(s), drop)
         ELSE <<Head(s)>> \o FilterSeq(Tail(s), drop)

\* ------------------------------------------------------------- hashing
\* sha256_hash of an encrypted chunk: a collision-free symbolic digest
sha256_hash(blob) == <<0, blob.iv, blob.key>> \o blob.pt

\* _hash_pair: SHA-256(left || right), collision-free
hash_pair(left, right) == <<1, Len(left)>> \o left \o right

\* 4-bit stand-in for int(sha256(id).hexdigest(), 16), injective on the ids used
IdHash(id) ==
    CASE id = "n1" -> 5
      [] id = "n2" -> 12
      [] id = "n3" -> 9
      [] id = "t1" -> 6
      [] id = "t2" -> 11
      [] OTHER -> 0

RECURSIVE Xor(_, _)
\* hash_a ^ hash_b on non-negative integers
Xor(a, b) ==
    IF a = 0 THEN b
    ELSE IF b = 0 THEN a
    ELSE (((a % 2) + (b % 2)) % 2) + (2 * Xor(a \div 2, b \div 2))

xor_distance(id_a, id_b) == Xor(IdHash(id_a), IdHash(id_b))

RECURSIVE SumOf(_)
SumOf(s) == IF s = <<>> THEN 0 ELSE Head(s) + SumOf(Tail(s))

\* 4-bit stand-in for int(sha256(chunk_hash).hexdigest(), 16)
DigestHash(chunk_hash) == SumOf(chunk_hash) % 16

\* _xor_distance(node_id, chunk_hash): the distance of a node to a chunk
chunk_distance(id, chunk_hash) == Xor(IdHash(id), DigestHash(chunk_hash))

\* ------------------------------------------------------- routing table
\* the _nodes dict: a sequence of NodeInfo in insertion order
NodeIds(ns) == {ns[i].node_id : i \in 1..Len(ns)}

IndexOf(ns, id) == CHOOSE i \in 1..Len(ns) : ns[i].node_id = id

\* RoutingTable.get_node
get_node(ns, id) == IF id \in NodeIds(ns) THEN ns[IndexOf(ns, id)] ELSE [node_id |-> ""]

\* NodeInfo.to_dict
to_dict(n) == [node_id |-> n.node_id, address |-> n.address,
               last_seen |-> n.last_seen, chunk_count |-> Cardinality(n.chunks)]

RECURSIVE DictList(_)
DictList(ns) == IF ns = <<>> THEN <<>> ELSE <<to_dict(Head(ns))>> \o DictList(Tail(ns))

\* variant: a registration always starts a fresh record
register_node_Fresh(ns, id, address, t) ==
    IF id \in NodeIds(ns)
    THEN [ns EXCEPT ![IndexOf(ns, id)] =
                      [node_id |-> id, address |-> address, last_seen |-> t, chunks |-> {}]]
    ELSE Append(ns, [node_id |-> id, address |-> address, last_seen |-> t, chunks |-> {}])

\* RoutingTable.register_node
register_node(ns, id, address, t) ==
    IF id \in NodeIds(ns)
    THEN [ns EXCEPT ![IndexOf(ns, id)].address = address,
                    ![IndexOf(ns, id)].last_seen = t]
    ELSE Append(ns, [node_id |-> id, address |-> address, last_seen |-> t, chunks |-> {}])

\* variant: a heartbeat of an unknown id registers it
heartbeat_Upsert(ns, id, t) ==
    IF id \in NodeIds(ns) THEN [ns EXCEPT ![IndexOf(ns, id)].last_seen = t]
    ELSE Append(ns, [node_id |-> id, address |-> id, last_seen |-> t, chunks |-> {}])

\* RoutingTable.heartbeat (the table after the call; unchanged for an unknown id)
heartbeat(ns, id, t) ==
    IF id \in NodeIds(ns) THEN [ns EXCEPT ![IndexOf(ns, id)].last_seen = t] ELSE ns

RECURSIVE StaleIds_Lenient(_, _)
\* variant: the staleness test allows twice the timeout
StaleIds_Lenient(ns, t) ==
    IF ns = <<>> THEN <<>>
    ELSE IF t - Head(ns).last_seen > 2 * StaleTimeout
         THEN <<Head(ns).node_id>> \o StaleIds_Lenient(Tail(ns), t)
         ELSE StaleIds_Lenient(Tail(ns), t)

RECURSIVE StaleIds_Strict(_, _)
\* variant: a node seen exactly the timeout ago counts as stale
StaleIds_Strict(ns, t) ==
    IF ns = <<>> THEN <<>>
    ELSE IF t - Head(ns).last_seen >= StaleTimeout
         THEN <<Head(ns).node_id>> \o StaleIds_Strict(Tail(ns), t)
         ELSE StaleIds_Strict(Tail(ns), t)

RECURSIVE StaleIds(_, _)
\* stale_ids list comprehension of remove_stale_nodes
StaleIds(ns, t) ==
    IF ns = <<>> THEN <<>>
    ELSE IF t - Head(ns).last_seen > StaleTimeout
         THEN <<Head(ns).node_id>> \o StaleIds(Tail(ns), t)
         ELSE StaleIds(Tail(ns), t)

\* variant: the evicted node is left in the location records
DiscardFromLocations_Forgotten(locs, nid) == locs

\* variant: records that became empty are not deleted
DiscardFromLocations_KeepEmpty(locs, nid) ==
    [h \in DOMAIN locs |-> locs[h] \ {nid}]

\* inner loop of remove_stale_nodes for one nid: discard it from every record
\* and delete the records that became empty
DiscardFromLocations(locs, nid) ==
    [h \in {c \in DOMAIN locs : locs[c] \ {nid} # {}} |-> locs[h] \ {nid}]

RECURSIVE EvictAll(_, _, _)
\* outer loop of remove_stale_nodes: returns the pair <<nodes, chunk_locations>>
EvictAll(ns, locs, stale) ==
    IF stale = <<>> THEN <<ns, locs>>
    ELSE EvictAll(FilterSeq(ns, {Head(stale)}),
                  DiscardFromLocations(locs, Head(stale)),
                  Tail(stale))

\* RoutingTable.remove_stale_nodes
remove_stale_nodes(ns, locs, t) ==
    LET stale == StaleIds(ns, t)
        after == EvictAll(ns, locs, stale)
    IN [nodes |-> after[1], locs |-> after[2], stale |-> stale]

\* variant: n goes in front, whatever its distance
InsertByDistance_Front(sorted, n, target) == <<n>> \o sorted

RECURSIVE InsertByDistance(_, _, _)
\* stable insertion: n goes after every element at distance <= its own
InsertByDistance(sorted, n, target) ==
    IF sorted = <<>> THEN <<n>>
    ELSE IF xor_distance(Head(sorted).node_id, target) <= xor_distance(n.node_id, target)
         THEN <<Head(sorted)>> \o InsertByDistance(Tail(sorted), n, target)
         ELSE <<n>> \o sorted

\* variant: the nodes are left in the order of the dict
SortByDistance_Unsorted(ns, target) == ns

RECURSIVE SortByDistance(_, _)
\* sorted(self._nodes.values(), key=xor distance): Python's sort is stable
SortByDistance(ns, target) ==
    IF ns = <<>> THEN <<>>
    ELSE InsertByDistance(SortByDistance(SubSeq(ns, 1, Len(ns) - 1), target),
                          ns[Len(ns)], target)

\* variant: the location is recorded, the chunk set of the node is not
store_chunk_location_IndexOnly(ns, locs, h, id) ==
    <<ns, [c \in DOMAIN locs \cup {h} |->
             IF c = h
             THEN (IF h \in DOMAIN locs THEN locs[h] ELSE {}) \cup {id}
             ELSE locs[c]]>>

\* RoutingTable.store_chunk_location: the pair <<nodes, chunk_locations>> after it
store_chunk_location(ns, locs, h, id) ==
    LET locs2 == [c \in DOMAIN locs \cup {h} |->
                    IF c = h
                    THEN (IF h \in DOMAIN locs THEN locs[h] ELSE {}) \cup {id}
                    ELSE locs[c]]
        ns2 == IF id \in NodeIds(ns)
               THEN [ns EXCEPT ![IndexOf(ns, id)].chunks = @ \cup {h}]
               ELSE ns
    IN <<ns2, locs2>>

\* node list of get_chunk_locations on an already swept table, in table order
LocationsOf(ns, locs, h) ==
    LET ids == IF h \in DOMAIN locs THEN locs[h] ELSE {}
    IN FilterSeq(ns, NodeIds(ns) \ ids)

\* what a call of check_replication or repair_replication returned, with the
\* nodes it found as holders, the nodes it contacted and those that would
\* have accepted the chunk
MgrResp(op, chunk_hash, current, meets, needed, holders, candidates, contacted, new_nodes, answering) ==
    [op |-> op, chunk_hash |-> chunk_hash, current |-> current, meets |-> meets,
     needed |-> needed, holders |-> holders, candidates |-> candidates,
     contacted |-> contacted, new_nodes |-> new_nodes, answering |-> answering]

\* ---------------------------------------------------------------- Init
\* an empty dict
EmptyMap == [x \in {} |-> {}]

NoDirResp == [op |-> "none", status |-> 0, nodes |-> <<>>, at |-> 0]
\* shape of what the gateway answered last, with what it logged on the way
GwResp(op, status, detail, file_id, key, root, hashes, body, placements, fetched, retrieved) ==
    [op |-> op, status |-> status, detail |-> detail, file_id |-> file_id,
     key |-> key, merkle_root |-> root, chunk_hashes |-> hashes, body |-> body,
     placements |-> placements, fetched |-> fetched, retrieved |-> retrieved,
     chunk_proofs |-> {}, all_valid |-> FALSE]

\* a file of zero bytes, as open(path, "wb") leaves it before the first write
EmptyFile == [iv |-> 0, key |-> 0, pt |-> <<>>]

\* the bytes of a chunk file: the IV, then the ciphertext (kept symbolic as
\* the key and the plaintext)
Bytes(blob) == IF blob = EmptyFile THEN <<>> ELSE <<blob.iv, blob.key>> \o blob.pt

\* hashlib.sha256(bytes).hexdigest(), collision-free; on the bytes of an
\* encrypted chunk it is sha256_hash of the chunk
sha256(bytes) == <<0>> \o bytes

\* str.encode("utf-8") of a string given by its code points (below 2048)
RECURSIVE utf8(_)
utf8(str) ==
    IF str = <<>> THEN <<>>
    ELSE (IF Head(str) < 128 THEN <<Head(str)>>
          ELSE <<192 + (Head(str) \div 64), 128 + (Head(str) % 64)>>) \o utf8(Tail(str))

\* variant: the proof is the hash of the chunk alone
generate_por_DataOnly(chunk_data, challenge) == sha256(Bytes(chunk_data))

\* generate_por: SHA-256(chunk_data || challenge.encode("utf-8"))
generate_por(chunk_data, challenge) == sha256(Bytes(chunk_data) \o utf8(challenge))

\* verify_por: recompute the proof and compare
verify_por(chunk_data, challenge, expected_proof) ==
    generate_por(chunk_data, challenge) = expected_proof

\* st_size of a chunk file: the 16 bytes of the IV and the padded ciphertext
file_size(blob) ==
    IF blob = EmptyFile THEN 0 ELSE 16 + 16 * ((Len(blob.pt) \div 16) + 1)

\* what a storage node answered last: the status, the "status" field of the
\* body, the bytes of a retrieve and the fields of the chunk listing
NodeResp(op, node, chunk_hash, status, result, data, chunks, total_count, total_size_bytes) ==
    [op |-> op, node |-> node, chunk_hash |-> chunk_hash, status |-> status,
     result |-> result, data |-> data, chunks |-> chunks,
     total_count |-> total_count, total_size_bytes |-> total_size_bytes,
     challenge |-> <<>>, proof |-> <<>>]

NoNodeResp == NodeResp("none", "", <<>>, 0, "", EmptyFile, {}, 0, 0)

\* the slots for store requests that a node works on at the same time
CallIds == 1..MaxCalls

\* a slot that holds no request
IdleCall == [pc |-> "idle", node |-> "", chunk_hash |-> <<>>, data |-> EmptyFile,
             result |-> ""]

\* the slots for requests that the tracker has received and not yet handled
RequestIds == {1, 2}

\* a slot that holds no request; seen is the routing table as it was when
\* the request of the slot arrived
IdleRequest == [pc |-> "idle", op |-> "none", node_id |-> "", chunk_hash |-> <<>>,
                seen |-> [nodes |-> <<>>, locs |-> EmptyMap]]

NoMgrResp == MgrResp("none", <<>>, 0, FALSE, 0, {}, <<>>, <<>>, <<>>, {})
NoGwResp == GwResp("none", 0, "", 0, 0, <<>>, <<>>, <<>>, <<>>, <<>>, EmptyMap)

\* the state of the services after construction
Start ==
    /\ now = 0
    /\ nodes = <<>>
    /\ chunk_locations = EmptyMap
    /\ last_evicted = <<>>
    /\ dirResp = NoDirResp
    /\ running = [p \in Peers |-> FALSE]
    /\ chunk_store = [p \in Peers |-> EmptyMap]
    /\ registry = EmptyMap
    /\ receipts = EmptyMap
    /\ gwResp = NoGwResp
    /\ uploadCount = 0
    /\ mgrResp = NoMgrResp
    /\ nodeResp = NoNodeResp
    /\ calls = [c \in CallIds |-> IdleCall]
    /\ requests = [r \in RequestIds |-> IdleRequest]
    /\ serial = [nodes |-> <<>>, locs |-> EmptyMap, reply |-> NoDirResp]

\* no library function is under examination
NoProbe == [fn |-> "none"]

\* the services after construction
Init == Start /\ probe = NoProbe

\* dirResp, last_evicted and gwResp describe the reply of the step just taken:
\* a step that is not a tracker request leaves no tracker reply, a step that
\* is not a gateway request leaves no gateway reply
NoTrackerReply == dirResp' = NoDirResp /\ last_evicted' = <<>>
NoGatewayReply == gwResp' = NoGwResp /\ mgrResp' = NoMgrResp
\* a step that is not a request to a storage node leaves no reply of a node
\* and does not touch the store calls in progress
NoNodeReply == nodeResp' = NoNodeResp /\ UNCHANGED <<calls, requests, serial, probe>>

\* ------------------------------------------------------ tracker routes
\* time.time() moves on
Tick ==
    /\ now + TickStep <= MaxTicks * TickStep
    /\ now' = now + TickStep
    /\ NoTrackerReply
    /\ NoGatewayReply
    /\ UNCHANGED <<nodes, chunk_locations, nodeVars, registry, receipts, uploadCount>>
    /\ NoNodeReply

\* POST /nodes/register
RegisterNode(id, address) ==
    /\ nodes' = register_node(nodes, id, address, now)
    /\ dirResp' = [op |-> "register", status |-> 200,
                   nodes |-> <<to_dict(get_node(nodes', id))>>, at |-> now]
    /\ last_evicted' = <<>>
    /\ NoGatewayReply
    /\ UNCHANGED <<now, chunk_locations, nodeVars, registry, receipts, uploadCount>>
    /\ NoNodeReply

\* POST /nodes/heartbeat
Heartbeat(id) ==
    /\ nodes' = heartbeat(nodes, id, now)
    /\ dirResp' = [op |-> "heartbeat",
                   status |-> IF id \in NodeIds(nodes) THEN 200 ELSE 404,
                   nodes |-> <<>>, at |-> now]
    /\ last_evicted' = <<>>
    /\ NoGatewayReply
    /\ UNCHANGED <<now, chunk_locations, nodeVars, registry, receipts, uploadCount>>
    /\ NoNodeReply

\* GET /nodes
ListNodes ==
    LET swept == remove_stale_nodes(nodes, chunk_locations, now)
    IN /\ nodes' = swept.nodes
       /\ chunk_locations' = swept.locs
       /\ last_evicted' = swept.stale
       /\ dirResp' = [op |-> "list_nodes", status |-> 200,
                      nodes |-> DictList(swept.nodes), at |-> now]
       /\ NoGatewayReply
       /\ UNCHANGED <<now, nodeVars, registry, receipts, uploadCount>>
       /\ NoNodeReply

\* GET /nodes/closest
GetClosestNodes(target, k) ==
    LET swept == remove_stale_nodes(nodes, chunk_locations, now)
    IN /\ nodes' = swept.nodes
       /\ chunk_locations' = swept.locs
       /\ last_evicted' = swept.stale
       /\ dirResp' = [op |-> "closest", status |-> 200,
                      nodes |-> IF swept.nodes = <<>> THEN <<>>
                                ELSE DictList(Take(SortByDistance(swept.nodes, target), k)),
                      at |-> now]
       /\ NoGatewayReply
       /\ UNCHANGED <<now, nodeVars, registry, receipts, uploadCount>>
       /\ NoNodeReply

\* variant: the route does not check that the node is registered
AnnounceChunk_NoCheck(h, id) ==
    /\ nodes' = store_chunk_location(nodes, chunk_locations, h, id)[1]
    /\ chunk_locations' = store_chunk_location(nodes, chunk_locations, h, id)[2]
    /\ dirResp' = [op |-> "announce", status |-> 200, nodes |-> <<>>, at |-> now]
    /\ last_evicted' = <<>>
    /\ NoGatewayReply
    /\ UNCHANGED <<now, nodeVars, registry, receipts, uploadCount>>
    /\ NoNodeReply

\* POST /chunks/announce
AnnounceChunk(h, id) ==
    /\ IF get_node(nodes, id).node_id = ""
       THEN /\ dirResp' = [op |-> "announce", status |-> 404, nodes |-> <<>>, at |-> now]
            /\ UNCHANGED <<nodes, chunk_locations>>
       ELSE /\ nodes' = store_chunk_location(nodes, chunk_locations, h, id)[1]
            /\ chunk_locations' = store_chunk_location(nodes, chunk_locations, h, id)[2]
            /\ dirResp' = [op |-> "announce", status |-> 200, nodes |-> <<>>, at |-> now]
    /\ last_evicted' = <<>>
    /\ NoGatewayReply
    /\ UNCHANGED <<now, nodeVars, registry, receipts, uploadCount>>
    /\ NoNodeReply

\* GET /chunks/{chunk_hash}/locations
GetChunkLocations(h) ==
    LET swept == remove_stale_nodes(nodes, chunk_locations, now)
    IN /\ nodes' = swept.nodes
       /\ chunk_locations' = swept.locs
       /\ last_evicted' = swept.stale
       /\ dirResp' = [op |-> "locations", status |-> 200,
                      nodes |-> DictList(LocationsOf(swept.nodes, swept.locs, h)),
                      at |-> now]
       /\ NoGatewayReply
       /\ UNCHANGED <<now, nodeVars, registry, receipts, uploadCount>>
       /\ NoNodeReply

\* variant: a handler works on the routing table as it was when its request
\* arrived
Table_AtArrival(current, seen) == seen

\* the routing table a handler works on: the one object of the module, as it
\* is when the handler runs
Table(current, seen) == current

\* the handler of one tracker request, from its first to its last line, on
\* the table tbl at time t: the table it leaves and what it answers
Handle(req, tbl, t) ==
    CASE req.op = "register" ->
           LET ns == register_node(tbl.nodes, req.node_id, req.node_id, t)
           IN [nodes |-> ns, locs |-> tbl.locs,
               reply |-> [op |-> "register", status |-> 200,
                          nodes |-> <<to_dict(get_node(ns, req.node_id))>>, at |-> t]]
      [] req.op = "heartbeat" ->
           [nodes |-> heartbeat(tbl.nodes, req.node_id, t), locs |-> tbl.locs,
            reply |-> [op |-> "heartbeat",
                       status |-> IF req.node_id \in NodeIds(tbl.nodes) THEN 200 ELSE 404,
                       nodes |-> <<>>, at |-> t]]
      [] req.op = "announce" ->
           IF get_node(tbl.nodes, req.node_id).node_id = ""
           THEN [nodes |-> tbl.nodes, locs |-> tbl.locs,
                 reply |-> [op |-> "announce", status |-> 404, nodes |-> <<>>, at |-> t]]
           ELSE LET put == store_chunk_location(tbl.nodes, tbl.locs, req.chunk_hash,
                                                req.node_id)
                IN [nodes |-> put[1], locs |-> put[2],
                    reply |-> [op |-> "announce", status |-> 200, nodes |-> <<>>, at |-> t]]
      [] req.op = "list_nodes" ->
           LET swept == remove_stale_nodes(tbl.nodes, tbl.locs, t)
           IN [nodes |-> swept.nodes, locs |-> swept.locs,
               reply |-> [op |-> "list_nodes", status |-> 200,
                          nodes |-> DictList(swept.nodes), at |-> t]]
      [] OTHER ->
           LET swept == remove_stale_nodes(tbl.nodes, tbl.locs, t)
           IN [nodes |-> swept.nodes, locs |-> swept.locs,
               reply |-> [op |-> "locations", status |-> 200,
                          nodes |-> DictList(LocationsOf(swept.nodes, swept.locs,
                                                         req.chunk_hash)),
                          at |-> t]]

\* a request reaches the tracker while others may be waiting
Arrive(r, op, id, h) ==
    /\ requests[r].pc # "pending"
    /\ requests' = [requests EXCEPT ![r] =
                       [pc |-> "pending", op |-> op, node_id |-> id, chunk_hash |-> h,
                        seen |-> [nodes |-> nodes, locs |-> chunk_locations]]]
    /\ NoTrackerReply
    /\ NoGatewayReply
    /\ nodeResp' = NoNodeResp
    /\ UNCHANGED <<now, nodes, chunk_locations, nodeVars, registry, receipts, uploadCount,
                   calls, serial, probe>>

\* the event loop runs the handler of one waiting request; the handlers are
\* coroutines without an await, so the handler runs from start to end before
\* another one starts. serial is the table and the answer that the requests
\* give when they are run one after the other in this order
Serve(r) ==
    /\ requests[r].pc = "pending"
    /\ \E done \in {Handle(requests[r],
                            [nodes |-> Table(nodes, requests[r].seen.nodes),
                             locs |-> Table(chunk_locations, requests[r].seen.locs)],
                            now)} :
          /\ nodes' = done.nodes
          /\ chunk_locations' = done.locs
          /\ dirResp' = done.reply
    /\ serial' = Handle(requests[r], [nodes |-> serial.nodes, locs |-> serial.locs], now)
    /\ requests' = [requests EXCEPT ![r].pc = "done"]
    /\ last_evicted' = <<>>
    /\ NoGatewayReply
    /\ nodeResp' = NoNodeResp
    /\ UNCHANGED <<now, nodeVars, registry, receipts, uploadCount, calls, probe>>

\* ------------------------------------------------------------ chunker
RECURSIVE split_file_FullOnly(_, _)
\* variant: a last slice shorter than chunk_size is left out
split_file_FullOnly(data, chunk_size) ==
    IF Len(data) < chunk_size THEN <<>>
    ELSE <<SubSeq(data, 1, chunk_size)>>
             \o split_file_FullOnly(SubSeq(data, chunk_size + 1, Len(data)), chunk_size)

RECURSIVE split_file(_, _)
\* split_file on non-empty data: slices of chunk_size bytes, the last one shorter
split_file(data, chunk_size) ==
    IF Len(data) <= chunk_size THEN <<data>>
    ELSE <<SubSeq(data, 1, chunk_size)>>
             \o split_file(SubSeq(data, chunk_size + 1, Len(data)), chunk_size)

RECURSIVE reassemble_file(_)
\* b"".join(chunks)
reassemble_file(chunks) ==
    IF chunks = <<>> THEN <<>> ELSE Head(chunks) \o reassemble_file(Tail(chunks))

\* a call of split_file(data, chunk_size): ValueError on empty data, then on
\* a chunk size that is not positive
SplitFile ==
    /\ probe.fn = "bytes"
    /\ probe' = IF probe.data = <<>> \/ probe.chunk_size <= 0
                THEN [fn |-> "split_error", data |-> probe.data,
                      chunk_size |-> probe.chunk_size]
                ELSE [fn |-> "chunks", data |-> probe.data, chunk_size |-> probe.chunk_size,
                      chunks |-> split_file(probe.data, probe.chunk_size)]
    /\ UNCHANGED <<now, dirVars, nodeVars, gwVars, mgrResp, nodeResp, calls, requests, serial>>

\* a call of reassemble_file on the chunks that split_file returned:
\* ValueError on an empty list
ReassembleFile ==
    /\ probe.fn = "chunks"
    /\ probe' = IF probe.chunks = <<>>
                THEN [fn |-> "join_error", data |-> probe.data,
                      chunk_size |-> probe.chunk_size, chunks |-> probe.chunks]
                ELSE [fn |-> "joined", data |-> probe.data, chunk_size |-> probe.chunk_size,
                      chunks |-> probe.chunks, joined |-> reassemble_file(probe.chunks)]
    /\ UNCHANGED <<now, dirVars, nodeVars, gwVars, mgrResp, nodeResp, calls, requests, serial>>

\* --------------------------------------------------------- encryption
\* encrypt_chunk: iv + AES-CBC(key, iv, pad(data)), kept symbolic
encrypt_chunk(data, key, iv) == [iv |-> iv, key |-> key, pt |-> data]

\* decrypt_chunk: under the right key the plaintext; under another key unpad
\* raises ValueError unless the garbage happens to end in valid padding
decrypt_chunk(blob, key, lucky) ==
    IF blob.key = key THEN [ok |-> TRUE, pt |-> blob.pt]
    ELSE IF lucky THEN [ok |-> TRUE, pt |-> <<GarbageByte>>]
    ELSE [ok |-> FALSE, pt |-> <<>>]

\* variant: data that already fill whole blocks get no padding
pad_NoFullBlock(data, block_size) ==
    IF Len(data) % block_size = 0 THEN data
    ELSE data \o [i \in 1..(block_size - (Len(data) % block_size)) |->
                     block_size - (Len(data) % block_size)]

\* Crypto.Util.Padding.pad (PKCS7): n bytes of value n, 1 <= n <= block_size
pad(data, block_size) ==
    data \o [i \in 1..(block_size - (Len(data) % block_size)) |->
                block_size - (Len(data) % block_size)]

\* Crypto.Util.Padding.unpad (PKCS7): ValueError unless the length is a
\* positive multiple of the block size and the last n bytes are all n
unpad(padded, block_size) ==
    IF Len(padded) = 0 \/ Len(padded) % block_size # 0
    THEN [ok |-> FALSE, data |-> <<>>]
    ELSE LET n == padded[Len(padded)]
         IN IF n < 1 \/ n > block_size
               \/ \E i \in (Len(padded) - n + 1)..Len(padded) : padded[i] # n
            THEN [ok |-> FALSE, data |-> <<>>]
            ELSE [ok |-> TRUE, data |-> SubSeq(padded, 1, Len(padded) - n)]

\* AES.new(key, MODE_CBC, iv).encrypt(padded_data): a ciphertext as long as
\* its input, kept symbolic
cbc_encrypt(key, iv, padded_data) == [key |-> key, iv |-> iv, padded |-> padded_data]

\* AES.new(key, MODE_CBC, iv).decrypt(ciphertext): the input of the
\* encryption under the same key and IV, bytes without meaning otherwise
\* (lucky: they end in a valid padding)
cbc_decrypt(key, iv, ciphertext, lucky) ==
    IF key = ciphertext.key /\ iv = ciphertext.iv THEN ciphertext.padded
    ELSE [i \in 1..Len(ciphertext.padded) |->
             IF lucky /\ i = Len(ciphertext.padded) THEN 1 ELSE GarbageByte]

\* encrypt_chunk with the key as bytes and the padding spelled out:
\* ValueError unless the key has 32 bytes; the result is the IV followed by
\* the ciphertext
encrypt_bytes(data, key, iv) ==
    IF Len(key) # KEY_SIZE THEN [ok |-> FALSE, error |-> "key"]
    ELSE [ok |-> TRUE, iv |-> iv,
          ciphertext |-> cbc_encrypt(key, iv, pad(data, BLOCK_SIZE)),
          size |-> IV_SIZE + Len(pad(data, BLOCK_SIZE))]

\* decrypt_chunk on such a result: ValueError unless the key has 32 bytes,
\* when the data are shorter than an IV and a block, and from unpad
decrypt_bytes(encrypted, key, lucky) ==
    IF Len(key) # KEY_SIZE THEN [ok |-> FALSE, error |-> "key", data |-> <<>>]
    ELSE IF encrypted.size < IV_SIZE + BLOCK_SIZE
    THEN [ok |-> FALSE, error |-> "short", data |-> <<>>]
    ELSE LET plain == unpad(cbc_decrypt(key, encrypted.iv, encrypted.ciphertext, lucky),
                            BLOCK_SIZE)
         IN IF plain.ok THEN [ok |-> TRUE, error |-> "", data |-> plain.data]
            ELSE [ok |-> FALSE, error |-> "padding", data |-> <<>>]

\* a call of encrypt_chunk(data, key); iv is what os.urandom returned
EncryptChunk ==
    /\ probe.fn = "plain"
    /\ probe' = LET enc == encrypt_bytes(probe.data, probe.key, probe.iv)
                IN IF enc.ok
                   THEN [fn |-> "encrypted", data |-> probe.data, key |-> probe.key,
                         encrypted |-> enc]
                   ELSE [fn |-> "encrypt_error", data |-> probe.data, key |-> probe.key]
    /\ UNCHANGED <<now, dirVars, nodeVars, gwVars, mgrResp, nodeResp, calls, requests, serial>>

\* a call of decrypt_chunk on the result of encrypt_chunk, with some key
DecryptChunk(key, lucky) ==
    /\ probe.fn = "encrypted"
    /\ probe' = LET dec == decrypt_bytes(probe.encrypted, key, lucky)
                IN [fn |-> "decrypted", data |-> probe.data, key |-> probe.key,
                    used_key |-> key, ok |-> dec.ok, error |-> dec.error,
                    plaintext |-> dec.data]
    /\ UNCHANGED <<now, dirVars, nodeVars, gwVars, mgrResp, nodeResp, calls, requests, serial>>

\* ------------------------------------------------------------- merkle
RECURSIVE NextLevel(_)
\* one round of the while loop of _build_tree: pair up, duplicate an odd last
NextLevel(level) ==
    IF level = <<>> THEN <<>>
    ELSE IF Len(level) = 1 THEN <<hash_pair(level[1], level[1])>>
    ELSE <<hash_pair(level[1], level[2])>> \o NextLevel(SubSeq(level, 3, Len(level)))

RECURSIVE MerkleRoot(_)
\* MerkleTree(hashes).root for a non-empty list
MerkleRoot(level) == IF Len(level) = 1 THEN level[1] ELSE MerkleRoot(NextLevel(level))

RECURSIVE Levels(_)
\* MerkleTree.levels: from the leaves (first) to the root (last)
Levels(level) ==
    IF Len(level) = 1 THEN <<level>> ELSE <<level>> \o Levels(NextLevel(level))

RECURSIVE ProofFrom(_, _, _)
\* the loop of get_proof from level k on, current_index counted from 0
ProofFrom(levels, k, current_index) ==
    IF k >= Len(levels) THEN <<>>
    ELSE LET level == levels[k]
             step == IF current_index % 2 = 0
                     THEN IF current_index + 1 < Len(level)
                          THEN [sibling |-> level[current_index + 2], direction |-> "right"]
                          ELSE [sibling |-> level[current_index + 1], direction |-> "right"]
                     ELSE [sibling |-> level[current_index], direction |-> "left"]
         IN <<step>> \o ProofFrom(levels, k + 1, current_index \div 2)

\* MerkleTree.get_proof for an index in range, counted from 0
get_proof(levels, index) == ProofFrom(levels, 1, index)

RECURSIVE ClimbRightOnly(_, _)
ClimbRightOnly(current_hash, proof) ==
    IF proof = <<>> THEN current_hash
    ELSE ClimbRightOnly(hash_pair(current_hash, Head(proof).sibling), Tail(proof))

RECURSIVE Climb(_, _)
\* the loop of verify_proof: hash with each sibling on its side
Climb(current_hash, proof) ==
    IF proof = <<>> THEN current_hash
    ELSE Climb(IF Head(proof).direction = "left"
               THEN hash_pair(Head(proof).sibling, current_hash)
               ELSE hash_pair(current_hash, Head(proof).sibling),
               Tail(proof))

\* variant: every sibling is taken to be on the right
verify_proof_RightOnly(leaf_hash, proof, expected_root) ==
    ClimbRightOnly(leaf_hash, proof) = expected_root

\* MerkleTree.verify_proof
verify_proof(leaf_hash, proof, expected_root) == Climb(leaf_hash, proof) = expected_root

\* MerkleTree(hashes): ValueError on an empty list, else the levels
BuildTree ==
    /\ probe.fn = "hashes"
    /\ probe' = IF probe.hashes = <<>>
                THEN [fn |-> "value_error", hashes |-> probe.hashes]
                ELSE [fn |-> "tree", hashes |-> probe.hashes,
                      levels |-> Levels(probe.hashes),
                      root |-> MerkleRoot(probe.hashes)]
    /\ UNCHANGED <<now, dirVars, nodeVars, gwVars, mgrResp, nodeResp, calls, requests, serial>>

\* tree.get_proof(index): IndexError outside [0, len(leaves))
GetProof(index) ==
    /\ probe.fn = "tree"
    /\ probe' = IF index < 0 \/ index >= Len(probe.hashes)
                THEN [fn |-> "index_error", hashes |-> probe.hashes, index |-> index]
                ELSE [fn |-> "proof", hashes |-> probe.hashes, root |-> probe.root,
                      index |-> index, proof |-> get_proof(probe.levels, index)]
    /\ UNCHANGED <<now, dirVars, nodeVars, gwVars, mgrResp, nodeResp, calls, requests, serial>>

\* MerkleTree.verify_proof(leaf_hash, proof, expected_root) with the proof
\* that get_proof returned
VerifyProof(leaf_hash, expected_root) ==
    /\ probe.fn = "proof"
    /\ probe' = [fn |-> "verified", hashes |-> probe.hashes, root |-> probe.root,
                 index |-> probe.index, leaf_hash |-> leaf_hash,
                 expected_root |-> expected_root,
                 is_valid |-> verify_proof(leaf_hash, probe.proof, expected_root)]
    /\ UNCHANGED <<now, dirVars, nodeVars, gwVars, mgrResp, nodeResp, calls, requests, serial>>

\* two trees are built from two lists of hashes
BuildTrees ==
    /\ probe.fn = "two_lists"
    /\ probe' = [fn |-> "two_roots", hashes |-> probe.hashes, other |-> probe.other,
                 root |-> MerkleRoot(probe.hashes),
                 again |-> MerkleRoot(probe.hashes),
                 other_root |-> MerkleRoot(probe.other)]
    /\ UNCHANGED <<now, dirVars, nodeVars, gwVars, mgrResp, nodeResp, calls, requests, serial>>

\* -------------------------------------------------------- chunk store
\* variant: the write is acknowledged but the file never reaches the disk
store_Lost(dir, chunk_hash, data) ==
    IF chunk_hash \in DOMAIN dir
    THEN [dir |-> dir, result |-> "already_exists"]
    ELSE IF sha256_hash(data) # chunk_hash
    THEN [dir |-> dir, result |-> "mismatch"]
    ELSE [dir |-> dir, result |-> "stored"]

\* variant: the file is written whether or not it exists already
store_Rewrite(dir, chunk_hash, data) ==
    IF sha256_hash(data) # chunk_hash
    THEN [dir |-> dir, result |-> "mismatch"]
    ELSE [dir |-> [c \in DOMAIN dir \cup {chunk_hash} |->
                      IF c = chunk_hash THEN data ELSE dir[c]],
          result |-> "stored"]

\* variant: the bytes are written without hashing them first
store_Unverified(dir, chunk_hash, data) ==
    IF chunk_hash \in DOMAIN dir
    THEN [dir |-> dir, result |-> "already_exists"]
    ELSE [dir |-> [c \in DOMAIN dir \cup {chunk_hash} |->
                      IF c = chunk_hash THEN data ELSE dir[c]],
          result |-> "stored"]

\* ChunkStore.store: the directory after the call and what the call did
store(dir, chunk_hash, data) ==
    IF chunk_hash \in DOMAIN dir
    THEN [dir |-> dir, result |-> "already_exists"]
    ELSE IF sha256_hash(data) # chunk_hash
    THEN [dir |-> dir, result |-> "mismatch"]
    ELSE [dir |-> [c \in DOMAIN dir \cup {chunk_hash} |->
                      IF c = chunk_hash THEN data ELSE dir[c]],
          result |-> "stored"]

\* path.write_bytes, first half: open(path, "wb") creates the file or
\* truncates it
open_wb(dir, chunk_hash) ==
    [c \in DOMAIN dir \cup {chunk_hash} |-> IF c = chunk_hash THEN EmptyFile ELSE dir[c]]

\* variant: the data are added at the end of what the file holds
write_Append(dir, chunk_hash, data) ==
    [dir EXCEPT ![chunk_hash] =
        IF @ = EmptyFile THEN data ELSE [@ EXCEPT !.pt = @ \o data.pt]]

\* path.write_bytes, second half: the data are written from offset 0 of the
\* open file
write(dir, chunk_hash, data) == [dir EXCEPT ![chunk_hash] = data]

\* ChunkStore.retrieve: the bytes of the file, or None
retrieve(dir, chunk_hash) ==
    IF chunk_hash \in DOMAIN dir
    THEN [found |-> TRUE, data |-> dir[chunk_hash]]
    ELSE [found |-> FALSE, data |-> EmptyFile]

\* ChunkStore.delete: unlink the file if it is there
delete(dir, chunk_hash) ==
    IF chunk_hash \in DOMAIN dir
    THEN [dir |-> [c \in DOMAIN dir \ {chunk_hash} |-> dir[c]], deleted |-> TRUE]
    ELSE [dir |-> dir, deleted |-> FALSE]

\* ChunkStore.list_chunks
list_chunks(dir) == DOMAIN dir

\* ChunkStore.chunk_count
chunk_count(dir) == Cardinality(list_chunks(dir))

RECURSIVE SizeOver(_, _)
SizeOver(dir, names) ==
    IF names = {} THEN 0
    ELSE LET c == CHOOSE x \in names : TRUE
         IN file_size(dir[c]) + SizeOver(dir, names \ {c})

\* ChunkStore.total_size
total_size(dir) == SizeOver(dir, DOMAIN dir)

\* -------------------------------------------------- replication manager
RECURSIVE ReplicateToNodes_StopAtFailure(_, _, _, _, _, _)
\* variant: the first node that does not accept ends the loop
ReplicateToNodes_StopAtFailure(contacted, st, up, lost, chunk_hash, data) ==
    IF contacted = <<>> THEN st
    ELSE
      LET node == Head(contacted)
          posted == store(st.stores[node.address], chunk_hash, data)
          accepted == up[node.address] /\ posted.result # "mismatch"
          announced == store_chunk_location(st.nodes, st.locs, chunk_hash, node.node_id)
      IN IF ~accepted \/ node.node_id \notin NodeIds(st.nodes) \/ node.node_id \in lost
         THEN st
         ELSE ReplicateToNodes_StopAtFailure(
                  Tail(contacted),
                  [st EXCEPT !.stores[node.address] = posted.dir,
                             !.nodes = announced[1],
                             !.locs = announced[2],
                             !.successful = Append(@, node.node_id)],
                  up, lost, chunk_hash, data)

RECURSIVE ReplicateToNodes_ReportBeforeAnnounce(_, _, _, _, _, _)
\* variant: a node is appended to successful_nodes as soon as its POST is
\* answered 2xx, whatever becomes of the announce
ReplicateToNodes_ReportBeforeAnnounce(contacted, st, up, lost, chunk_hash, data) ==
    IF contacted = <<>> THEN st
    ELSE
      LET node == Head(contacted)
          posted == store(st.stores[node.address], chunk_hash, data)
          accepted == up[node.address] /\ posted.result # "mismatch"
          known == node.node_id \in NodeIds(st.nodes) /\ node.node_id \notin lost
          announced == store_chunk_location(st.nodes, st.locs, chunk_hash, node.node_id)
          st1 == IF ~accepted THEN st
                 ELSE IF ~known
                 THEN [st EXCEPT !.stores[node.address] = posted.dir,
                                 !.successful = Append(@, node.node_id)]
                 ELSE [st EXCEPT !.stores[node.address] = posted.dir,
                                 !.nodes = announced[1],
                                 !.locs = announced[2],
                                 !.successful = Append(@, node.node_id)]
      IN ReplicateToNodes_ReportBeforeAnnounce(Tail(contacted), st1, up, lost, chunk_hash,
                                               data)

RECURSIVE ReplicateToNodes(_, _, _, _, _, _)
\* the for loop of replicate_chunk over nodes[:k]; st carries the tracker
\* table, the location records, the chunk stores and successful_nodes. The
\* announce of a node raises when the tracker answers 404 (the node is not
\* in its table) or is not reached (the nodes in lost)
ReplicateToNodes(contacted, st, up, lost, chunk_hash, data) ==
    IF contacted = <<>> THEN st
    ELSE
      LET node == Head(contacted)
          posted == store(st.stores[node.address], chunk_hash, data)
          accepted == up[node.address] /\ posted.result # "mismatch"
          known == node.node_id \in NodeIds(st.nodes) /\ node.node_id \notin lost
          announced == store_chunk_location(st.nodes, st.locs, chunk_hash, node.node_id)
          st1 == IF ~accepted THEN st
                 ELSE IF ~known
                 THEN [st EXCEPT !.stores[node.address] = posted.dir]
                 ELSE [st EXCEPT !.stores[node.address] = posted.dir,
                                 !.nodes = announced[1],
                                 !.locs = announced[2],
                                 !.successful = Append(@, node.node_id)]
      IN ReplicateToNodes(Tail(contacted), st1, up, lost, chunk_hash, data)

\* variant: the loop runs over every active node instead of nodes[:k]
replicate_chunk_Uncapped(ns, locs, stores, up, lost, t, chunk_hash, data) ==
    LET swept == remove_stale_nodes(ns, locs, t)
        active == DictList(swept.nodes)
        st0 == [nodes |-> swept.nodes, locs |-> swept.locs, stores |-> stores,
                successful |-> <<>>]
        st == ReplicateToNodes(active, st0, up, lost, chunk_hash, data)
    IN IF active = <<>>
       THEN [nodes |-> swept.nodes, locs |-> swept.locs, stores |-> stores,
             successful |-> <<>>, contacted |-> <<>>, error |-> TRUE]
       ELSE [nodes |-> st.nodes, locs |-> st.locs, stores |-> st.stores,
             successful |-> st.successful,
             contacted |-> active,
             error |-> st.successful = <<>>]

\* ReplicationManager.replicate_chunk at time t; error is the RuntimeError
replicate_chunk(ns, locs, stores, up, lost, t, chunk_hash, data) ==
    LET swept == remove_stale_nodes(ns, locs, t)
        active == DictList(swept.nodes)
        st0 == [nodes |-> swept.nodes, locs |-> swept.locs, stores |-> stores,
                successful |-> <<>>]
        st == ReplicateToNodes(Take(active, ReplicationFactor), st0, up, lost, chunk_hash, data)
    IN IF active = <<>>
       THEN [nodes |-> swept.nodes, locs |-> swept.locs, stores |-> stores,
             successful |-> <<>>, contacted |-> <<>>, error |-> TRUE]
       ELSE [nodes |-> st.nodes, locs |-> st.locs, stores |-> st.stores,
             successful |-> st.successful,
             contacted |-> Take(active, ReplicationFactor),
             error |-> st.successful = <<>>]

\* variant: the nodes are counted as recorded, without the tracker's sweep
check_replication_Unswept(ns, locs, t, chunk_hash) ==
    LET found == DictList(LocationsOf(ns, locs, chunk_hash))
        current == Len(found)
    IN [nodes |-> ns, locs |-> locs,
        holders |-> {found[i].node_id : i \in 1..Len(found)},
        current |-> current, meets |-> current >= ReplicationFactor]

\* ReplicationManager.check_replication at time t: find_chunk makes the
\* tracker sweep and list the nodes recorded for chunk_hash
check_replication(ns, locs, t, chunk_hash) ==
    LET swept == remove_stale_nodes(ns, locs, t)
        found == DictList(LocationsOf(swept.nodes, swept.locs, chunk_hash))
        current == Len(found)
    IN [nodes |-> swept.nodes, locs |-> swept.locs,
        holders |-> {found[i].node_id : i \in 1..Len(found)},
        current |-> current, meets |-> current >= ReplicationFactor]

\* variant: the nodes that already hold the chunk are candidates too
repair_replication_AnyNode(ns, locs, stores, up, lost, t, chunk_hash, data) ==
    LET swept == remove_stale_nodes(ns, locs, t)
        current_nodes == DictList(LocationsOf(swept.nodes, swept.locs, chunk_hash))
        current_ids == {current_nodes[i].node_id : i \in 1..Len(current_nodes)}
        needed == ReplicationFactor - Cardinality(current_ids)
        candidate_nodes == DictList(swept.nodes)
        st0 == [nodes |-> swept.nodes, locs |-> swept.locs, stores |-> stores,
                successful |-> <<>>]
        st == ReplicateToNodes(Take(candidate_nodes, needed), st0, up, lost, chunk_hash, data)
    IN IF needed <= 0
       THEN [nodes |-> swept.nodes, locs |-> swept.locs, stores |-> stores,
             holders |-> current_ids, needed |-> needed, candidates |-> <<>>,
             contacted |-> <<>>, new_nodes |-> <<>>]
       ELSE [nodes |-> st.nodes, locs |-> st.locs, stores |-> st.stores,
             holders |-> current_ids, needed |-> needed,
             candidates |-> candidate_nodes,
             contacted |-> Take(candidate_nodes, needed),
             new_nodes |-> st.successful]

\* ReplicationManager.repair_replication at time t; its loop over
\* candidate_nodes[:needed] has the body of the loop of replicate_chunk
repair_replication(ns, locs, stores, up, lost, t, chunk_hash, data) ==
    LET swept == remove_stale_nodes(ns, locs, t)
        current_nodes == DictList(LocationsOf(swept.nodes, swept.locs, chunk_hash))
        current_ids == {current_nodes[i].node_id : i \in 1..Len(current_nodes)}
        needed == ReplicationFactor - Cardinality(current_ids)
        all_nodes == DictList(swept.nodes)
        candidate_nodes == FilterSeq(all_nodes, current_ids)
        st0 == [nodes |-> swept.nodes, locs |-> swept.locs, stores |-> stores,
                successful |-> <<>>]
        st == ReplicateToNodes(Take(candidate_nodes, needed), st0, up, lost, chunk_hash, data)
    IN IF needed <= 0
       THEN [nodes |-> swept.nodes, locs |-> swept.locs, stores |-> stores,
             holders |-> current_ids, needed |-> needed, candidates |-> <<>>,
             contacted |-> <<>>, new_nodes |-> <<>>]
       ELSE [nodes |-> st.nodes, locs |-> st.locs, stores |-> st.stores,
             holders |-> current_ids, needed |-> needed,
             candidates |-> candidate_nodes,
             contacted |-> Take(candidate_nodes, needed),
             new_nodes |-> st.successful]

\* ------------------------------------------------------ storage nodes
\* variant: on startup the node also reports the chunks in its data directory
NodeStart_Reannounce(p) ==
    /\ ~running[p]
    /\ running' = [running EXCEPT ![p] = TRUE]
    /\ LET reg == register_node(nodes, p, p, now)
       IN nodes' = [reg EXCEPT ![IndexOf(reg, p)].chunks = @ \cup DOMAIN chunk_store[p]]
    /\ NoTrackerReply
    /\ NoGatewayReply
    /\ UNCHANGED <<now, chunk_locations, chunk_store, registry, receipts, uploadCount>>
    /\ NoNodeReply

\* lifespan startup: register_with_tracker, then the heartbeat task runs; the
\* node only logs the tracker's answer
NodeStart(p) ==
    /\ ~running[p]
    /\ running' = [running EXCEPT ![p] = TRUE]
    /\ nodes' = register_node(nodes, p, p, now)
    /\ NoTrackerReply
    /\ NoGatewayReply
    /\ UNCHANGED <<now, chunk_locations, chunk_store, registry, receipts, uploadCount>>
    /\ NoNodeReply

\* lifespan startup while the tracker is not reached: register_with_tracker
\* logs the exception, and the heartbeat task runs all the same
NodeStartUnreachable(p) ==
    /\ ~running[p]
    /\ running' = [running EXCEPT ![p] = TRUE]
    /\ NoTrackerReply
    /\ NoGatewayReply
    /\ UNCHANGED <<now, nodes, chunk_locations, chunk_store, registry, receipts, uploadCount>>
    /\ NoNodeReply

\* the store requests that node p has begun and not answered
InFlight(p) == {c \in CallIds : calls[c].node = p /\ calls[c].pc \in {"check", "open", "write"}}

\* the process stops; its chunk files stay on disk as they are at this
\* moment, and the requests it was working on are never answered
NodeStop(p) ==
    /\ running[p]
    /\ running' = [running EXCEPT ![p] = FALSE]
    /\ calls' = [c \in CallIds |->
                    IF c \in InFlight(p) THEN [calls[c] EXCEPT !.pc = "aborted"]
                    ELSE calls[c]]
    /\ nodeResp' = NoNodeResp
    /\ NoTrackerReply
    /\ NoGatewayReply
    /\ UNCHANGED <<now, nodes, chunk_locations, chunk_store, registry, receipts, uploadCount>>
    /\ UNCHANGED <<requests, serial, probe>>

\* one round of heartbeat_loop; the status of the answer is not looked at
NodeHeartbeat(p) ==
    /\ running[p]
    /\ nodes' = heartbeat(nodes, p, now)
    /\ NoTrackerReply
    /\ NoGatewayReply
    /\ UNCHANGED <<now, chunk_locations, nodeVars, registry, receipts, uploadCount>>
    /\ NoNodeReply

\* POST /chunks on node p: ChunkStore.store decides; 400 on a hash mismatch
StoreChunk(p, chunk_hash, data) ==
    /\ running[p]
    /\ LET done == store(chunk_store[p], chunk_hash, data)
       IN /\ chunk_store' = [chunk_store EXCEPT ![p] = done.dir]
          /\ nodeResp' = NodeResp("store", p, chunk_hash,
                                  IF done.result = "mismatch" THEN 400 ELSE 200,
                                  done.result, EmptyFile, {}, 0, 0)
    /\ NoTrackerReply
    /\ NoGatewayReply
    /\ UNCHANGED <<now, nodes, chunk_locations, running, registry, receipts, uploadCount>>
    /\ UNCHANGED <<calls, requests, serial, probe>>

\* POST /chunks reaches node p: request c enters ChunkStore.store
StoreBegin(c, p, chunk_hash, data) ==
    /\ running[p]
    /\ calls[c].pc = "idle"
    /\ calls' = [calls EXCEPT ![c] = [pc |-> "check", node |-> p, chunk_hash |-> chunk_hash,
                                      data |-> data, result |-> ""]]
    /\ nodeResp' = NoNodeResp
    /\ NoTrackerReply
    /\ NoGatewayReply
    /\ UNCHANGED <<now, nodes, chunk_locations, running, chunk_store, registry, receipts, uploadCount>>
    /\ UNCHANGED <<requests, serial, probe>>

\* request c tests path.exists() and then the hash of the data: it answers
\* "already_exists" or 400, or goes on to write the file
StoreCheck(c) ==
    /\ calls[c].pc = "check"
    /\ running[calls[c].node]
    /\ LET p == calls[c].node
           chunk_hash == calls[c].chunk_hash
           result == IF chunk_hash \in DOMAIN chunk_store[p] THEN "already_exists"
                     ELSE IF sha256_hash(calls[c].data) # chunk_hash THEN "mismatch"
                     ELSE ""
       IN IF result = ""
          THEN /\ calls' = [calls EXCEPT ![c].pc = "open"]
               /\ nodeResp' = NoNodeResp
          ELSE /\ calls' = [calls EXCEPT ![c].pc = "done", ![c].result = result]
               /\ nodeResp' = NodeResp("store", p, chunk_hash,
                                       IF result = "mismatch" THEN 400 ELSE 200,
                                       result, EmptyFile, {}, 0, 0)
    /\ NoTrackerReply
    /\ NoGatewayReply
    /\ UNCHANGED <<now, nodes, chunk_locations, running, chunk_store, registry, receipts, uploadCount>>
    /\ UNCHANGED <<requests, serial, probe>>

\* request c opens the file for writing inside path.write_bytes: the file is
\* created, or cut to zero bytes, under its final name
StoreOpen(c) ==
    /\ calls[c].pc = "open"
    /\ running[calls[c].node]
    /\ chunk_store' = [chunk_store EXCEPT ![calls[c].node] =
                           open_wb(@, calls[c].chunk_hash)]
    /\ calls' = [calls EXCEPT ![c].pc = "write"]
    /\ nodeResp' = NoNodeResp
    /\ NoTrackerReply
    /\ NoGatewayReply
    /\ UNCHANGED <<now, nodes, chunk_locations, running, registry, receipts, uploadCount>>
    /\ UNCHANGED <<requests, serial, probe>>

\* request c writes the bytes, closes the file and answers "stored"
StoreWrite(c) ==
    /\ calls[c].pc = "write"
    /\ running[calls[c].node]
    /\ chunk_store' = [chunk_store EXCEPT ![calls[c].node] =
                           write(@, calls[c].chunk_hash, calls[c].data)]
    /\ calls' = [calls EXCEPT ![c].pc = "done", ![c].result = "stored"]
    /\ nodeResp' = NodeResp("store", calls[c].node, calls[c].chunk_hash, 200, "stored",
                            EmptyFile, {}, 0, 0)
    /\ NoTrackerReply
    /\ NoGatewayReply
    /\ UNCHANGED <<now, nodes, chunk_locations, running, registry, receipts, uploadCount>>
    /\ UNCHANGED <<requests, serial, probe>>

\* GET /chunks/{chunk_hash} on node p: the bytes of the file, 404 without it
RetrieveChunk(p, chunk_hash) ==
    /\ running[p]
    /\ LET got == retrieve(chunk_store[p], chunk_hash)
       IN nodeResp' = NodeResp("retrieve", p, chunk_hash,
                               IF got.found THEN 200 ELSE 404,
                               IF got.found THEN "found" ELSE "not_found",
                               got.data, {}, 0, 0)
    /\ NoTrackerReply
    /\ NoGatewayReply
    /\ UNCHANGED <<now, nodes, chunk_locations, running, chunk_store, registry, receipts, uploadCount>>
    /\ UNCHANGED <<calls, requests, serial, probe>>

\* DELETE /chunks/{chunk_hash} on node p: 404 when there was no such file
DeleteChunk(p, chunk_hash) ==
    /\ running[p]
    /\ LET done == delete(chunk_store[p], chunk_hash)
       IN /\ chunk_store' = [chunk_store EXCEPT ![p] = done.dir]
          /\ nodeResp' = NodeResp("delete", p, chunk_hash,
                                  IF done.deleted THEN 200 ELSE 404,
                                  IF done.deleted THEN "deleted" ELSE "not_found",
                                  EmptyFile, {}, 0, 0)
    /\ NoTrackerReply
    /\ NoGatewayReply
    /\ UNCHANGED <<now, nodes, chunk_locations, running, registry, receipts, uploadCount>>
    /\ UNCHANGED <<calls, requests, serial, probe>>

\* GET /chunks on node p: the names, their number and the bytes they take
ListChunks(p) ==
    /\ running[p]
    /\ nodeResp' = NodeResp("list", p, <<>>, 200, "", EmptyFile,
                            list_chunks(chunk_store[p]), chunk_count(chunk_store[p]),
                            total_size(chunk_store[p]))
    /\ NoTrackerReply
    /\ NoGatewayReply
    /\ UNCHANGED <<now, nodes, chunk_locations, running, chunk_store, registry, receipts, uploadCount>>
    /\ UNCHANGED <<calls, requests, serial, probe>>

\* POST /chunks/{chunk_hash}/prove on node p: the proof over the bytes the
\* file holds now, 404 without the file
ProveChunk(p, chunk_hash, challenge) ==
    /\ running[p]
    /\ LET got == retrieve(chunk_store[p], chunk_hash)
       IN nodeResp' =
            IF got.found
            THEN [NodeResp("prove", p, chunk_hash, 200, "proof", EmptyFile, {}, 0, 0)
                    EXCEPT !.challenge = challenge,
                           !.proof = generate_por(got.data, challenge)]
            ELSE [NodeResp("prove", p, chunk_hash, 404, "not_found", EmptyFile, {}, 0, 0)
                    EXCEPT !.challenge = challenge]
    /\ NoTrackerReply
    /\ NoGatewayReply
    /\ UNCHANGED <<now, nodes, chunk_locations, running, chunk_store, registry, receipts, uploadCount>>
    /\ UNCHANGED <<calls, requests, serial, probe>>

\* the file of chunk_hash in p's data directory is overwritten from outside
\* the program; retrieve and GET /chunks/{hash} return whatever it holds now
Tamper(p, chunk_hash) ==
    /\ chunk_hash \in DOMAIN chunk_store[p]
    /\ sha256_hash(chunk_store[p][chunk_hash]) = chunk_hash
    /\ chunk_store' = [chunk_store EXCEPT
                          ![p][chunk_hash].pt = Append(@, 0)]
    /\ NoTrackerReply
    /\ NoGatewayReply
    /\ UNCHANGED <<now, nodes, chunk_locations, running, registry, receipts, uploadCount>>
    /\ NoNodeReply

\* ------------------------------------------------------------ gateway
RECURSIVE DistributeChunks_Lossy(_, _, _, _, _, _)
\* variant: a RuntimeError of replicate_chunk is logged and the loop goes on
DistributeChunks_Lossy(st, hashes, blobs, i, ups, t) ==
    IF i > Len(hashes) THEN st
    ELSE
      LET r == replicate_chunk(st.nodes, st.locs, st.stores, ups[i], {}, t, hashes[i],
                                 blobs[i])
          entry == [chunk_hash |-> hashes[i], data |-> blobs[i],
                    answering |-> {p \in Peers : ups[i][p]},
                    contacted |-> r.contacted, successful |-> r.successful,
                    error |-> r.error]
          st1 == [nodes |-> r.nodes, locs |-> r.locs, stores |-> r.stores,
                  log |-> Append(st.log, entry), failed |-> 0]
      IN DistributeChunks_Lossy(st1, hashes, blobs, i + 1, ups, t)

RECURSIVE DistributeChunks(_, _, _, _, _, _)
\* step 7 of upload_file: replicate chunk after chunk, stop at the first
\* RuntimeError; failed is the 1-based index of that chunk, 0 if none.
\* ups[i] tells which storage nodes answer while chunk i is replicated; log
\* keeps, per call of replicate_chunk, its arguments and its outcome
DistributeChunks(st, hashes, blobs, i, ups, t) ==
    IF i > Len(hashes) THEN st
    ELSE
      LET r == replicate_chunk(st.nodes, st.locs, st.stores, ups[i], {}, t, hashes[i],
                                 blobs[i])
          entry == [chunk_hash |-> hashes[i], data |-> blobs[i],
                    answering |-> {p \in Peers : ups[i][p]},
                    contacted |-> r.contacted, successful |-> r.successful,
                    error |-> r.error]
          st1 == [nodes |-> r.nodes, locs |-> r.locs, stores |-> r.stores,
                  log |-> Append(st.log, entry),
                  failed |-> IF r.error THEN i ELSE 0]
      IN IF r.error THEN st1
         ELSE DistributeChunks(st1, hashes, blobs, i + 1, ups, t)

\* POST /upload.  generate_key, the IVs and the uuid are fresh random values:
\* they are drawn from the upload counter so that no two of them coincide.
\* regOk tells whether the registry transaction goes through.  The handler
\* awaits between chunks: crash names a storage node whose process stops after
\* the first chunk has been distributed ("none": no node stops meanwhile).
UploadFile(content, filename, regOk, crash) ==
    /\ uploadCount < MaxUploads
    /\ crash # "none" => (running[crash] /\ Len(content) > ChunkSize)
    /\ NoTrackerReply
    /\ mgrResp' = NoMgrResp
    /\ NoNodeReply
    /\ UNCHANGED now
    /\ running' = [p \in Peers |-> running[p] /\ p # crash]
    /\ IF content = <<>>
       THEN /\ gwResp' = GwResp("upload", 400, "empty", 0, 0, <<>>, <<>>, <<>>, <<>>, <<>>, EmptyMap)
            /\ UNCHANGED <<nodes, chunk_locations, chunk_store, registry, receipts,
                           uploadCount>>
       ELSE /\ uploadCount' = uploadCount + 1
            /\ LET chunks == split_file(content, ChunkSize)
                    encryption_key == uploadCount + 1
                    encrypted_chunks == [i \in 1..Len(chunks) |->
                        encrypt_chunk(chunks[i], encryption_key, 10 * (uploadCount + 1) + i)]
                    chunk_hashes == [i \in 1..Len(chunks) |-> sha256_hash(encrypted_chunks[i])]
                    merkle_root == MerkleRoot(chunk_hashes)
                    ups == [i \in 1..Len(chunks) |-> IF i = 1 THEN running ELSE running']
                    d == DistributeChunks([nodes |-> nodes, locs |-> chunk_locations,
                                           stores |-> chunk_store, log |-> <<>>, failed |-> 0],
                                          chunk_hashes, encrypted_chunks, 1, ups, now)
                    file_id == uploadCount + 1
                IN /\ nodes' = d.nodes
                   /\ chunk_locations' = d.locs
                   /\ chunk_store' = d.stores
                   /\ IF d.failed # 0
                      THEN /\ gwResp' = GwResp("upload", 503, "replication", 0, 0, <<>>, <<>>,
                                               <<>>, d.log, <<>>, EmptyMap)
                           /\ UNCHANGED <<registry, receipts>>
                      ELSE IF ~regOk
                      THEN /\ gwResp' = GwResp("upload", 503, "registry", 0, 0, <<>>, <<>>,
                                               <<>>, d.log, <<>>, EmptyMap)
                           /\ UNCHANGED <<registry, receipts>>
                      ELSE /\ registry' = [f \in DOMAIN registry \cup {file_id} |->
                                             IF f = file_id
                                             THEN [merkle_root |-> merkle_root,
                                                   chunk_count |-> Len(chunks),
                                                   filename |-> filename]
                                             ELSE registry[f]]
                           /\ receipts' = [f \in DOMAIN receipts \cup {file_id} |->
                                             IF f = file_id
                                             THEN [content |-> content, filename |-> filename,
                                                   encryption_key |-> encryption_key,
                                                   chunk_hashes |-> chunk_hashes]
                                             ELSE receipts[f]]
                           /\ gwResp' = GwResp("upload", 200, "", file_id, encryption_key,
                                               merkle_root, chunk_hashes, <<>>, d.log, <<>>, EmptyMap)

\* every ordering of a finite set as a sequence
Orderings(S) ==
    {f \in [1..Cardinality(S) -> S] : \A i, j \in 1..Cardinality(S) : i # j => f[i] # f[j]}

RECURSIVE DecryptAll(_, _, _, _)
\* the decrypt loop of download_file over ordered_hashes; ok is FALSE when a
\* decrypt_chunk raised
DecryptAll(order, retrieved, key, lucky) ==
    IF order = <<>> THEN [ok |-> TRUE, chunks |-> <<>>]
    ELSE LET first == decrypt_chunk(retrieved[Head(order)], key, lucky)
             rest == DecryptAll(Tail(order), retrieved, key, lucky)
         IN IF ~first.ok \/ ~rest.ok THEN [ok |-> FALSE, chunks |-> <<>>]
            ELSE [ok |-> TRUE, chunks |-> <<first.pt>> \o rest.chunks]

\* the nodes download_file asks for chunk_hash: its locations, or every
\* active node when the tracker knows none
ChunkNodes(ns, locs, chunk_hash) ==
    IF LocationsOf(ns, locs, chunk_hash) # <<>>
    THEN DictList(LocationsOf(ns, locs, chunk_hash))
    ELSE DictList(ns)

\* node can serve chunk_hash with bytes that hash to it
Serves(address, chunk_hash) ==
    /\ running[address]
    /\ chunk_hash \in DOMAIN chunk_store[address]
    /\ sha256_hash(chunk_store[address][chunk_hash]) = chunk_hash

RECURSIVE FetchChunk_Unverified(_, _, _, _)
\* variant: the bytes of the first 200 answer are taken without hashing them
FetchChunk_Unverified(chunk_nodes, chunk_hash, stores, up) ==
    IF chunk_nodes = <<>> THEN [found |-> FALSE, data |-> <<>>]
    ELSE LET address == Head(chunk_nodes).address
         IN IF up[address] /\ chunk_hash \in DOMAIN stores[address]
            THEN [found |-> TRUE, data |-> stores[address][chunk_hash]]
            ELSE FetchChunk_Unverified(Tail(chunk_nodes), chunk_hash, stores, up)

RECURSIVE FetchChunk(_, _, _, _)
\* the inner loop of download_file over chunk_nodes: GET the chunk from node
\* after node until one answers 200 with bytes whose hash is chunk_hash; a
\* node that is down, lacks the chunk or returns other bytes is passed over
FetchChunk(chunk_nodes, chunk_hash, stores, up) ==
    IF chunk_nodes = <<>> THEN [found |-> FALSE, data |-> <<>>]
    ELSE LET address == Head(chunk_nodes).address
         IN IF /\ up[address]
               /\ chunk_hash \in DOMAIN stores[address]
               /\ sha256_hash(stores[address][chunk_hash]) = chunk_hash
            THEN [found |-> TRUE, data |-> stores[address][chunk_hash]]
            ELSE FetchChunk(Tail(chunk_nodes), chunk_hash, stores, up)

\* the outer loop of download_file: retrieved_encrypted after every hash of
\* all_chunk_hashes has been tried
RetrieveAll(all_chunk_hashes, ns, locs, stores, up) ==
    LET got == [h \in all_chunk_hashes |->
                   FetchChunk(ChunkNodes(ns, locs, h), h, stores, up)]
    IN [h \in {c \in all_chunk_hashes : got[c].found} |-> got[h].data]

\* GET /download/{file_id}?key=...   The iteration order of the Python set
\* all_chunk_hashes is arbitrary: ordered_hashes ranges over every ordering.
\* lucky tells whether the bytes that a wrong key yields end in valid padding.
DownloadFile(file_id, key) ==
    /\ IF file_id \notin DOMAIN registry
       THEN /\ gwResp' = GwResp("download", 404, "not found", file_id, 0, <<>>, <<>>,
                                <<>>, <<>>, <<>>, EmptyMap)
            /\ UNCHANGED <<nodes, chunk_locations>>
       ELSE
       \E swept \in {remove_stale_nodes(nodes, chunk_locations, now)} :
       \E active \in {DictList(swept.nodes)} :
       \E all_chunk_hashes \in
              {UNION {list_chunks(chunk_store[active[i].address]) :
                        i \in {j \in 1..Len(active) : running[active[j].address]}}} :
       \E retrieved_encrypted \in
              {RetrieveAll(all_chunk_hashes, swept.nodes, swept.locs, chunk_store,
                           running)} :
          /\ nodes' = swept.nodes
          /\ chunk_locations' = swept.locs
          /\ IF active = <<>>
             THEN gwResp' = GwResp("download", 503, "no nodes", file_id, key, <<>>, <<>>,
                                   <<>>, <<>>, <<>>, EmptyMap)
             ELSE IF Cardinality(DOMAIN retrieved_encrypted) < registry[file_id].chunk_count
             THEN gwResp' = GwResp("download", 503, "unretrievable", file_id, key, <<>>,
                                   <<>>, <<>>, <<>>, <<>>, retrieved_encrypted)
             ELSE \E lucky \in IF \E h \in DOMAIN retrieved_encrypted :
                                        retrieved_encrypted[h].key # key
                                THEN BOOLEAN ELSE {TRUE} :
                  \E ordered_hashes \in IF lucky THEN Orderings(DOMAIN retrieved_encrypted)
                                         ELSE {CHOOSE o \in Orderings(DOMAIN retrieved_encrypted) : TRUE} :
                  \E dec \in {DecryptAll(ordered_hashes, retrieved_encrypted, key, lucky)} :
                     IF ~dec.ok
                     THEN gwResp' = GwResp("download", 400, "decryption", file_id, key,
                                           <<>>, <<>>, <<>>, <<>>, <<>>,
                                           retrieved_encrypted)
                     ELSE gwResp' = GwResp("download", 200, "", file_id, key,
                                           registry[file_id].merkle_root, <<>>,
                                           reassemble_file(dec.chunks), <<>>,
                                           ordered_hashes, retrieved_encrypted)
    /\ NoTrackerReply
    /\ mgrResp' = NoMgrResp
    /\ NoNodeReply
    /\ UNCHANGED <<now, nodeVars, registry, receipts, uploadCount>>

\* the challenges sent to the nodes, as code points: one ASCII string and
\* one with a character of two UTF-8 bytes
Nonces == {<<48>>, <<49, 233>>}

\* the prove requests of one verification: every chunk listed by an active
\* node that answers
Challenged(active, stores, up) ==
    UNION {{<<active[i], h>> : h \in list_chunks(stores[active[i].address])} :
              i \in {j \in 1..Len(active) : up[active[j].address]}}

\* GET /files/{file_id}/verify: every active node lists its chunks and is
\* sent a fresh random challenge for each of them; an answer with status 200
\* is recorded as valid with the proof it carries, a node that cannot be
\* reached makes all_valid false
VerifyFile(file_id) ==
    /\ IF file_id \notin DOMAIN registry
       THEN /\ gwResp' = GwResp("verify", 404, "not found", file_id, 0, <<>>, <<>>,
                                <<>>, <<>>, <<>>, EmptyMap)
            /\ UNCHANGED <<nodes, chunk_locations>>
       ELSE
       \E swept \in {remove_stale_nodes(nodes, chunk_locations, now)} :
       \E active \in {DictList(swept.nodes)} :
       \E challenge \in [Challenged(active, chunk_store, running) -> Nonces] :
          /\ nodes' = swept.nodes
          /\ chunk_locations' = swept.locs
          /\ gwResp' =
                [GwResp("verify", 200, "", file_id, 0, registry[file_id].merkle_root,
                        <<>>, <<>>, <<>>, <<>>, EmptyMap)
                   EXCEPT !.chunk_proofs =
                              {[chunk_hash |-> c[2], node_id |-> c[1].node_id,
                                challenge |-> challenge[c],
                                proof |-> generate_por(chunk_store[c[1].address][c[2]],
                                                       challenge[c]),
                                is_valid |-> TRUE] :
                                 c \in Challenged(active, chunk_store, running)},
                          !.all_valid = \A i \in 1..Len(active) : running[active[i].address]]
    /\ mgrResp' = NoMgrResp
    /\ NoTrackerReply
    /\ UNCHANGED <<now, nodeVars, registry, receipts, uploadCount>>
    /\ NoNodeReply

\* a call of ReplicationManager.check_replication
CheckReplication(chunk_hash) ==
    /\ \E r \in {check_replication(nodes, chunk_locations, now, chunk_hash)} :
          /\ nodes' = r.nodes
          /\ chunk_locations' = r.locs
          /\ mgrResp' = MgrResp("assess", chunk_hash, r.current, r.meets, 0, r.holders,
                                <<>>, <<>>, <<>>, {})
    /\ gwResp' = NoGwResp
    /\ NoTrackerReply
    /\ UNCHANGED <<now, nodeVars, registry, receipts, uploadCount>>
    /\ NoNodeReply

\* a call of ReplicationManager.replicate_chunk outside an upload; lost are
\* the nodes whose announce does not reach the tracker
PlaceChunk(chunk_hash, data, lost) ==
    /\ \E r \in {replicate_chunk(nodes, chunk_locations, chunk_store, running, lost, now,
                                  chunk_hash, data)} :
          /\ nodes' = r.nodes
          /\ chunk_locations' = r.locs
          /\ chunk_store' = r.stores
          /\ mgrResp' = MgrResp("place", chunk_hash, 0, FALSE, 0, {}, <<>>, r.contacted,
                                r.successful,
                                {p \in Peers : running[p] /\
                                    store(chunk_store[p], chunk_hash, data).result # "mismatch"})
    /\ gwResp' = NoGwResp
    /\ NoTrackerReply
    /\ UNCHANGED <<now, running, registry, receipts, uploadCount>>
    /\ NoNodeReply

\* a call of ReplicationManager.repair_replication; answering are the nodes
\* whose POST /chunks would be answered 2xx, lost those whose announce does
\* not reach the tracker
RepairReplication(chunk_hash, data, lost) ==
    /\ \E r \in {repair_replication(nodes, chunk_locations, chunk_store, running, lost, now,
                                     chunk_hash, data)} :
          /\ nodes' = r.nodes
          /\ chunk_locations' = r.locs
          /\ chunk_store' = r.stores
          /\ mgrResp' = MgrResp("repair", chunk_hash, Cardinality(r.holders), FALSE,
                                r.needed, r.holders, r.candidates, r.contacted,
                                r.new_nodes,
                                {p \in Peers : running[p] /\
                                    store(chunk_store[p], chunk_hash, data).result # "mismatch"})
    /\ gwResp' = NoGwResp
    /\ NoTrackerReply
    /\ UNCHANGED <<now, running, registry, receipts, uploadCount>>
    /\ NoNodeReply

\* digests that callers of the tracker announce and look up
DirDigests == {<<0, 1, 1, 1>>, <<0, 2, 1, 3>>}
\* peer ids that callers of the tracker use
DirPeers == {"n1", "n2"}

\* the addresses that peers register with
DirAddresses == {"n1", "n2"}

\* the tracker alone, driven through its routes
NextDir ==
    \/ Tick
    \/ \E id \in DirPeers, address \in DirAddresses : RegisterNode(id, address)
    \/ \E id \in DirPeers : Heartbeat(id)
    \/ ListNodes
    \/ \E t \in Targets, k \in 0..ReplicationFactor : GetClosestNodes(t, k)
    \/ \E h \in DirDigests, id \in DirPeers : AnnounceChunk(h, id)
    \/ \E h \in DirDigests : GetChunkLocations(h)

SpecDir == Init /\ [][NextDir]_vars

\* the storage nodes deployed next to the gateway in the download scenarios
Fleet == {"n1", "n2"}

\* upload and download against a fleet of two nodes; the keys offered to
\* download are those that uploads returned and one that none returned
Next ==
    \/ Tick
    \/ \E p \in Fleet : NodeStart(p)
    \/ \E p \in Fleet : NodeStop(p)
    \/ \E p \in Fleet : NodeHeartbeat(p)
    \/ \E content \in Files, filename \in Filenames, regOk \in BOOLEAN,
          crash \in Fleet \cup {"none"} :
           UploadFile(content, filename, regOk, crash)
    \/ \E file_id \in 1..MaxUploads, key \in 1..(MaxUploads + 1) :
           DownloadFile(file_id, key)

\* the files uploaded in the placement scenarios: those of several chunks
PlacedFiles == {content \in Files : Len(content) > ChunkSize}

\* uploads against three nodes, one more than the replication factor, with
\* nodes that stop between two chunks; the registry transaction goes through
NextUpload ==
    \/ Tick
    \/ \E p \in Peers : NodeStart(p)
    \/ \E p \in Peers : NodeStop(p)
    \/ \E p \in Peers : NodeHeartbeat(p)
    \/ \E content \in PlacedFiles, filename \in Filenames, crash \in Peers \cup {"none"} :
           UploadFile(content, filename, TRUE, crash)

SpecUpload == Init /\ [][NextUpload]_vars

\* a chunk that no upload of the gateway produced, as another client of the
\* storage nodes would send it
ForeignChunk == encrypt_chunk(<<7>>, 9, 90)

\* the chunks in the data directories of the fleet
StoredDigests == UNION {DOMAIN chunk_store[p] : p \in Fleet}

\* downloads of one published file from a fleet whose chunk files get
\* damaged and that other clients store chunks on
NextFetch ==
    \/ \E p \in Fleet : NodeStart(p)
    \/ \E p \in Fleet : NodeStop(p)
    \/ \E content \in PlacedFiles, filename \in Filenames :
           registry = EmptyMap /\ UploadFile(content, filename, TRUE, "none")
    \/ \E p \in Fleet, chunk_hash \in {sha256_hash(ForeignChunk), <<0>>} :
           StoreChunk(p, chunk_hash, ForeignChunk)
    \/ \E p \in Fleet, chunk_hash \in StoredDigests : Tamper(p, chunk_hash)
    \/ \E file_id \in 1..MaxUploads, key \in 1..(MaxUploads + 1) :
           DownloadFile(file_id, key)

SpecFetch == Init /\ [][NextFetch]_vars

\* the life of the storage nodes as the tracker sees it: nodes start, send
\* heartbeats or fall silent, receive the chunks of uploads, and the gateway
\* lists the active nodes
NextLife ==
    \/ Tick
    \/ \E p \in Fleet : NodeStart(p)
    \/ \E p \in Fleet : NodeStop(p)
    \/ \E p \in Fleet : NodeHeartbeat(p)
    \/ \E content \in PlacedFiles, filename \in Filenames :
           UploadFile(content, filename, TRUE, "none")
    \/ ListNodes

SpecLife == Init /\ [][NextLife]_vars

\* the chunks on the disks of the nodes, each with its digest
StoredChunks ==
    UNION {{<<h, chunk_store[p][h]>> : h \in DOMAIN chunk_store[p]} : p \in Peers}

\* the files of one chunk
SmallFiles == {content \in Files : Len(content) \in 1..ChunkSize}

\* the replication manager at work on three nodes: one file of one chunk is
\* uploaded, nodes come and go, and the replication of the chunk is
\* assessed and repaired
NextRepair ==
    \/ Tick
    \/ \E p \in Peers : NodeStart(p)
    \/ \E p \in Peers : NodeStop(p)
    \/ \E p \in Peers : NodeHeartbeat(p)
    \/ \E content \in SmallFiles, filename \in Filenames :
           registry = EmptyMap /\ UploadFile(content, filename, TRUE, "none")
    \/ \E c \in StoredChunks : CheckReplication(c[1])
    \/ \E c \in StoredChunks : RepairReplication(c[1], c[2], {})

SpecRepair == Init /\ [][NextRepair]_vars

\* the chunk that the replication manager places and repairs, with its digest
PlacedChunks == {<<sha256_hash(ForeignChunk), ForeignChunk>>}

\* the nodes whose announce may fail to reach the tracker
LossyPeers == {"n1", "n2"}

\* the replication manager placing and repairing one chunk on three nodes
\* that come and go, while the announces for two of them may fail to reach
\* the tracker
NextAnnounce ==
    \/ Tick
    \/ \E p \in Peers : NodeStart(p)
    \/ \E p \in Peers : NodeStop(p)
    \/ \E c \in PlacedChunks, lost \in SUBSET LossyPeers : PlaceChunk(c[1], c[2], lost)
    \/ \E c \in PlacedChunks, lost \in SUBSET LossyPeers :
           RepairReplication(c[1], c[2], lost)

SpecAnnounce == Init /\ [][NextAnnounce]_vars

\* the location index next to the chunk stores it speaks of: a chunk is
\* placed on a fleet of two nodes, a client of a node deletes it there, and
\* callers of the tracker announce and look up its digest
NextIndex ==
    \/ Tick
    \/ \E p \in Fleet : NodeStart(p)
    \/ \E p \in Fleet : NodeHeartbeat(p)
    \/ \E c \in PlacedChunks : PlaceChunk(c[1], c[2], {})
    \/ \E p \in Fleet, c \in PlacedChunks : DeleteChunk(p, c[1])
    \/ \E id \in Fleet, c \in PlacedChunks : AnnounceChunk(c[1], id)
    \/ \E c \in PlacedChunks : GetChunkLocations(c[1])

SpecIndex == Init /\ [][NextIndex]_vars

\* membership of a fleet of two nodes: a node starts with or without
\* reaching the tracker, stops, sends heartbeats, and the tracker sweeps its
\* table when its nodes are listed
NextMember ==
    \/ Tick
    \/ \E p \in Fleet : NodeStart(p)
    \/ \E p \in Fleet : NodeStartUnreachable(p)
    \/ \E p \in Fleet : NodeStop(p)
    \/ \E p \in Fleet : NodeHeartbeat(p)
    \/ ListNodes

\* heartbeat_loop is a task that runs for as long as the node does and the
\* tracker answers every request it gets: a heartbeat that would change the
\* table is eventually handled
SpecMember ==
    /\ Init
    /\ [][NextMember]_vars
    /\ \A p \in Fleet : WF_vars(NodeHeartbeat(p))

\* the blobs and the digests that are sent to the chunk stores
StoreBlobs == {ForeignChunk, encrypt_chunk(<<1, 2>>, 3, 30)}
StoreDigests == {sha256_hash(blob) : blob \in StoreBlobs}
StorePeers == {"n1", "n2"}

\* the chunk stores of two nodes under the requests of the node API, each
\* request handled from start to end before the next one
NextStore ==
    \/ \E p \in StorePeers : NodeStart(p)
    \/ \E p \in StorePeers : NodeStop(p)
    \/ \E p \in StorePeers, chunk_hash \in StoreDigests, data \in StoreBlobs :
           StoreChunk(p, chunk_hash, data)
    \/ \E p \in StorePeers, chunk_hash \in StoreDigests : RetrieveChunk(p, chunk_hash)
    \/ \E p \in StorePeers, chunk_hash \in StoreDigests : DeleteChunk(p, chunk_hash)
    \/ \E p \in StorePeers : ListChunks(p)

SpecStore == Init /\ [][NextStore]_vars

\* one chunk store under store requests that overlap in time
NextOverlap ==
    \/ NodeStart("n1")
    \/ \E c \in CallIds, chunk_hash \in StoreDigests, data \in StoreBlobs :
           StoreBegin(c, "n1", chunk_hash, data)
    \/ \E c \in CallIds : StoreCheck(c)
    \/ \E c \in CallIds : StoreOpen(c)
    \/ \E c \in CallIds : StoreWrite(c)

SpecOverlap == Init /\ [][NextOverlap]_vars

\* one chunk store whose process can stop in the middle of a store request,
\* start again and be asked for what it holds
NextCrash ==
    \/ NodeStart("n1")
    \/ NodeStop("n1")
    \/ \E c \in CallIds, data \in StoreBlobs : StoreBegin(c, "n1", sha256_hash(data), data)
    \/ \E c \in CallIds : StoreCheck(c)
    \/ \E c \in CallIds : StoreOpen(c)
    \/ \E c \in CallIds : StoreWrite(c)
    \/ \E data \in StoreBlobs : StoreChunk("n1", sha256_hash(data), data)
    \/ \E chunk_hash \in StoreDigests : RetrieveChunk("n1", chunk_hash)
    \/ ListChunks("n1")

SpecCrash == Init /\ [][NextCrash]_vars

\* two chunk stores that are asked for proofs of what they hold, while files
\* are stored, deleted and overwritten from outside
NextProve ==
    \/ \E p \in StorePeers : NodeStart(p)
    \/ \E p \in StorePeers : NodeStop(p)
    \/ \E p \in StorePeers, data \in StoreBlobs : StoreChunk(p, sha256_hash(data), data)
    \/ \E p \in StorePeers, chunk_hash \in StoreDigests : DeleteChunk(p, chunk_hash)
    \/ \E p \in StorePeers, chunk_hash \in StoreDigests : Tamper(p, chunk_hash)
    \/ \E p \in StorePeers, chunk_hash \in StoreDigests, challenge \in Nonces :
           ProveChunk(p, chunk_hash, challenge)

SpecProve == Init /\ [][NextProve]_vars

\* audits of a fleet that holds one published file and whose chunk files
\* get overwritten from outside
NextAudit ==
    \/ \E p \in Fleet : NodeStart(p)
    \/ \E p \in Fleet : NodeStop(p)
    \/ \E content \in PlacedFiles, filename \in Filenames :
           registry = EmptyMap /\ UploadFile(content, filename, TRUE, "none")
    \/ \E p \in Fleet, chunk_hash \in StoredDigests : Tamper(p, chunk_hash)
    \/ \E file_id \in 1..MaxUploads : VerifyFile(file_id)

SpecAudit == Init /\ [][NextAudit]_vars

\* the requests sent to the tracker: operation, node id, chunk hash
DirRequests ==
    {<<"register", "n1", <<>>>>, <<"heartbeat", "n1", <<>>>>,
     <<"announce", "n1", <<0, 1>>>>, <<"list_nodes", "", <<>>>>,
     <<"locations", "", <<0, 1>>>>}

\* the tracker under requests that wait for the event loop at the same time
NextSerial ==
    \/ Tick
    \/ \E r \in RequestIds, q \in DirRequests : Arrive(r, q[1], q[2], q[3])
    \/ \E r \in RequestIds : Serve(r)

SpecSerial == Init /\ [][NextSerial]_vars

\* the chunk hashes the trees are built from
LeafHashes == {sha256_hash(encrypt_chunk(<<b>>, 1, 10)) : b \in 1..3}

\* the lists of at most n of these hashes
HashLists(n) == UNION {[1..len -> LeafHashes] : len \in 0..n}

\* the hashes offered to verify_proof as leaf or as root: chunk hashes and
\* hashes of pairs
OtherHashes == LeafHashes \cup {hash_pair(h, h) : h \in LeafHashes}

\* a Merkle tree is built from a list of hashes, asked for the proof of a
\* leaf, and the proof is verified for some leaf hash against some root
InitMerkle == Start /\ probe \in {[fn |-> "hashes", hashes |-> L] : L \in HashLists(MaxLeaves)}

NextMerkle ==
    \/ BuildTree
    \/ \E index \in -1..MaxLeaves : GetProof(index)
    \/ /\ probe.fn = "proof"
       /\ \E leaf_hash \in OtherHashes \cup {probe.hashes[probe.index + 1]},
             expected_root \in OtherHashes \cup {probe.root} :
              VerifyProof(leaf_hash, expected_root)

SpecMerkle == InitMerkle /\ [][NextMerkle]_vars

\* the roots of two lists of hashes
InitRoots ==
    Start /\ probe \in {[fn |-> "two_lists", hashes |-> L1, other |-> L2] :
                            L1 \in HashLists(MaxLeaves) \ {<<>>},
                            L2 \in HashLists(MaxLeaves) \ {<<>>}}

NextRoots == BuildTrees

SpecRoots == InitRoots /\ [][NextRoots]_vars

\* the byte strings of at most n bytes, over two byte values
ByteStrings(n) == UNION {[1..len -> {1, 2}] : len \in 0..n}

\* a byte string is split with some chunk size and joined again
InitChunker ==
    Start /\ probe \in {[fn |-> "bytes", data |-> x, chunk_size |-> S] :
                            x \in ByteStrings(MaxBytes), S \in -1..(MaxBytes + 1)}

NextChunker == SplitFile \/ ReassembleFile

SpecChunker == InitChunker /\ [][NextChunker]_vars

\* a key of n bytes
KeyBytes(id, n) == [i \in 1..n |-> id]

\* keys of 32 bytes and keys of other lengths, the lengths of AES-128 and
\* AES-192 keys among them
CryptoKeys ==
    {KeyBytes(1, KEY_SIZE), KeyBytes(2, KEY_SIZE), KeyBytes(1, KEY_SIZE - 1),
     KeyBytes(1, KEY_SIZE + 1), KeyBytes(1, 16), KeyBytes(1, 24), <<>>}

\* the chunks: the short byte strings, the empty one among them, and chunks
\* of one byte less than a block, a block, and one byte more
CryptoChunks ==
    ByteStrings(MaxBytes) \cup
    {[i \in 1..n |-> 1] : n \in {BLOCK_SIZE - 1, BLOCK_SIZE, BLOCK_SIZE + 1}}

\* a chunk is encrypted under some key and the result decrypted
InitCrypto ==
    Start /\ probe \in {[fn |-> "plain", data |-> c, key |-> k, iv |-> iv] :
                            c \in CryptoChunks, k \in CryptoKeys, iv \in {10, 20}}

NextCrypto ==
    \/ EncryptChunk
    \/ \E key \in CryptoKeys, lucky \in BOOLEAN : DecryptChunk(key, lucky)

SpecCrypto == InitCrypto /\ [][NextCrypto]_vars

Spec == Init /\ [][Next]_vars

\* ------------------------------------------------- peer directory claims
SweepingReads == {"list_nodes", "closest", "locations"}

\* the node ids recorded for any chunk
IndexedIds == UNION {chunk_locations[h] : h \in DOMAIN chunk_locations}

\* C2: every peer in the result of active_peers, lookup_nearest or locate
\* was seen at most stale_timeout before the time of the query
C2_NoStalePeerInResults ==
    dirResp.op \in SweepingReads =>
        \A i \in 1..Len(dirResp.nodes) :
            dirResp.at - dirResp.nodes[i].last_seen <= StaleTimeout

\* a query that evicted a stale peer and still returned an active one
C2_Witness ==
    /\ dirResp.op \in SweepingReads
    /\ dirResp.nodes # <<>>
    /\ last_evicted # <<>>

\* C3 as stated: in every state no chunk_index entry holds a peer that was
\* last seen more than stale_timeout ago
C3_NoStalePeerInIndexEver ==
    \A id \in IndexedIds :
        /\ id \in NodeIds(nodes)
        /\ now - get_node(nodes, id).last_seen <= StaleTimeout

\* C3 amended: right after a sweeping read (before the clock moves on) every
\* peer in a chunk_index entry is in the table and not stale
C3_NoStalePeerInIndexAfterSweep ==
    (dirResp.op \in SweepingReads /\ dirResp.at = now) => C3_NoStalePeerInIndexEver

\* a read has just evicted a peer while another peer is still indexed
C3_Witness ==
    /\ dirResp.op \in SweepingReads
    /\ dirResp.at = now
    /\ last_evicted # <<>>
    /\ IndexedIds # {}

\* the three reads, each of which starts with remove_stale_nodes
SweepingReadStep ==
    \/ ListNodes
    \/ \E t \in Targets, k \in 0..ReplicationFactor : GetClosestNodes(t, k)
    \/ \E h \in DirDigests : GetChunkLocations(h)

\* what a sweep must do, stated on the table before and after it
SweepExact ==
    LET staleSet == {nodes[i].node_id : i \in {j \in 1..Len(nodes) :
                                                now - nodes[j].last_seen > StaleTimeout}}
    IN /\ nodes' = SelectSeq(nodes, LAMBDA n : n.node_id \notin staleSet)
       /\ DOMAIN chunk_locations' =
              {h \in DOMAIN chunk_locations : chunk_locations[h] \ staleSet # {}}
       /\ \A h \in DOMAIN chunk_locations' :
              /\ chunk_locations'[h] = chunk_locations[h] \ staleSet
              /\ chunk_locations'[h] # {}
       /\ Range(last_evicted') = staleSet

\* C4: a sweep removes exactly the stale peers from the table and from every
\* chunk_index entry, deletes the entries that became empty, and leaves the
\* other peers and their index memberships unchanged
C4_SweepRemovesExactlyStale == [][SweepingReadStep => SweepExact]_vars

\* a sweep has evicted a peer; a peer that holds a chunk survives, and one of
\* the digests has no record
C4_Witness ==
    /\ dirResp.op \in SweepingReads
    /\ last_evicted # <<>>
    /\ DOMAIN chunk_locations # {}
    /\ DOMAIN chunk_locations # DirDigests
    /\ \E i \in 1..Len(nodes) : nodes[i].chunks # {}

\* C5: every peer id in a chunk_index entry is a key of the peer table
C5_IndexRefersToTable == IndexedIds \subseteq NodeIds(nodes)

\* an announce for an unregistered peer id was refused while the index is
\* not empty
C5_Witness ==
    /\ dirResp.op = "announce"
    /\ dirResp.status = 404
    /\ IndexedIds # {}

\* ------------------------------------------------------ placement claims
\* what locate(d) answers in the current state: get_chunk_locations after its sweep
locate(d) ==
    LET swept == remove_stale_nodes(nodes, chunk_locations, now)
    IN LocationsOf(swept.nodes, swept.locs, d)

\* the node ids of a list of node records
IdsOf(ns) == [i \in 1..Len(ns) |-> ns[i].node_id]

\* C6: after replicate_chunk(d, b) has returned the list R, every p in R is
\* among the nodes that locate(d) answers and the chunk store of p holds b
\* under d
C6_PlacedIsLocatedAndStored ==
    gwResp.op = "upload" =>
        \A i \in 1..Len(gwResp.placements) :
            LET e == gwResp.placements[i]
            IN \A p \in Range(e.successful) :
                   /\ p \in Range(IdsOf(locate(e.chunk_hash)))
                   /\ e.chunk_hash \in DOMAIN chunk_store[get_node(nodes, p).address]
                   /\ chunk_store[get_node(nodes, p).address][e.chunk_hash] = e.data

\* an upload of two chunks, the first placed on two nodes, the second on the
\* one that was still answering
C6_Witness ==
    /\ gwResp.op = "upload"
    /\ gwResp.status = 200
    /\ Len(gwResp.placements) = 2
    /\ Len(gwResp.placements[1].successful) = 2
    /\ Len(gwResp.placements[2].successful) = 1

C8_PublishOnlyIfAllPlaced ==
    [][gwResp'.op = "upload" =>
          LET log == gwResp'.placements
              anyFailed == \E i \in 1..Len(log) : log[i].error
          IN /\ registry' # registry =>
                    /\ gwResp'.status = 200
                    /\ ~anyFailed
                    /\ Len(log) = Len(gwResp'.chunk_hashes)
                    /\ \A i \in 1..Len(log) :
                           /\ log[i].chunk_hash = gwResp'.chunk_hashes[i]
                           /\ log[i].successful # <<>>
                    /\ registry'[gwResp'.file_id].chunk_count = Len(log)
             /\ anyFailed =>
                    /\ gwResp'.status = 503
                    /\ gwResp'.detail = "replication"
                    /\ registry' = registry
                    /\ gwResp'.file_id = 0
                    /\ gwResp'.key = 0]_vars

\* an upload placed its first chunk, failed on the second and was answered
\* 503; the first chunk stays on a node
C8_Witness ==
    /\ gwResp.op = "upload"
    /\ gwResp.status = 503
    /\ gwResp.detail = "replication"
    /\ Len(gwResp.placements) = 2
    /\ gwResp.placements[1].successful # <<>>
    /\ gwResp.placements[2].error
    /\ \E p \in Peers : gwResp.placements[1].chunk_hash \in DOMAIN chunk_store[p]

\* ------------------------------------------- manifest and download claims
\* C9 as stated: the record that an upload publishes in the registry carries
\* the list of chunk digests in the order in which the chunks were split
C9_ManifestCarriesDigests ==
    \A f \in DOMAIN registry :
        /\ "chunk_hashes" \in DOMAIN registry[f]
        /\ registry[f].chunk_hashes = receipts[f].chunk_hashes

\* C1 as stated: a download of a published file with the key that its upload
\* returned is never answered with a decryption error, and when it is
\* answered 200 the body is exactly the uploaded content
C1_RoundTrip ==
    (/\ gwResp.op = "download"
     /\ gwResp.file_id \in DOMAIN receipts
     /\ gwResp.key = receipts[gwResp.file_id].encryption_key)
        => /\ gwResp.status # 400
           /\ gwResp.status = 200 => gwResp.body = receipts[gwResp.file_id].content

\* C10 as stated: a download that is answered 200 has decrypted exactly the
\* chunks of the file, in the order of the digest list of its upload
C10_FetchesManifestInOrder ==
    (gwResp.op = "download" /\ gwResp.status = 200)
        => gwResp.fetched = receipts[gwResp.file_id].chunk_hashes

\* ------------------------------------------- download failure claims
\* a step in which download_file got past the metadata lookup
DownloadRan == gwResp'.op = "download" /\ gwResp'.status # 404

\* C11: in a download a blob is kept for digest d only if it hashes to d, and
\* a node that is down, lacks d or returns other bytes only makes the loop go
\* to the next node: if some node among those asked for d serves bytes that
\* hash to d, d is retrieved, and every blob handed to decryption hashes to
\* the digest it was fetched for
C11_VerifiedFailover ==
    [][DownloadRan =>
         LET swept == remove_stale_nodes(nodes, chunk_locations, now)
             retrieved == gwResp'.retrieved
         IN /\ \A d \in DOMAIN retrieved : sha256_hash(retrieved[d]) = d
            /\ \A d \in StoredDigests :
                  (\E n \in Range(ChunkNodes(swept.nodes, swept.locs, d)) :
                       Serves(n.address, d))
                  => d \in DOMAIN retrieved]_vars

\* a download returned the file although the node asked first for one of its
\* chunks holds damaged bytes under that digest
C11_Witness ==
    /\ gwResp.op = "download"
    /\ gwResp.status = 200
    /\ gwResp.file_id \in DOMAIN receipts
    /\ gwResp.body = receipts[gwResp.file_id].content
    /\ \E d \in Range(receipts[gwResp.file_id].chunk_hashes) :
          /\ d \in DOMAIN gwResp.retrieved
          /\ LocationsOf(nodes, chunk_locations, d) # <<>>
          /\ LET first == LocationsOf(nodes, chunk_locations, d)[1].node_id
             IN /\ running[first]
                /\ d \in DOMAIN chunk_store[first]
                /\ sha256_hash(chunk_store[first][d]) # d

\* C12 as stated: a download whose retrieved digests, in the order in which
\* they are decrypted, rebuild a Merkle root other than the one of the
\* manifest is not answered 200: no answer with file bytes has such a root
C12_RootMismatchAborts ==
    (gwResp.op = "download" /\ gwResp.status = 200 /\ gwResp.fetched # <<>>)
        => MerkleRoot(gwResp.fetched) = gwResp.merkle_root

\* C13 as stated: a download in which some digest of the requested file was
\* not retrieved is answered 503 and carries no file bytes, whatever other
\* chunks were retrieved
C13_MissingChunkFails ==
    (/\ gwResp.op = "download"
     /\ gwResp.status # 404
     /\ gwResp.file_id \in DOMAIN receipts
     /\ \E d \in Range(receipts[gwResp.file_id].chunk_hashes) :
           d \notin DOMAIN gwResp.retrieved)
        => gwResp.status = 503 /\ gwResp.body = <<>>

\* ------------------------------------------------------- lookup claims
\* the ids of the peers that are active at the time of a query
ActiveIds ==
    {nodes[i].node_id : i \in {j \in 1..Len(nodes) : now - nodes[j].last_seen <= StaleTimeout}}

\* C14: lookup_nodes(target, k) answers with min(k, number of active peers)
\* distinct active peers in ascending order of XOR distance to the target,
\* and no active peer left out is strictly closer than one in the answer
C14_XorOrder ==
    [][\A target \in Targets, k \in 0..ReplicationFactor :
         GetClosestNodes(target, k) =>
           LET result == dirResp'.nodes
               ids == {result[i].node_id : i \in 1..Len(result)}
           IN /\ Len(result) = Min(k, Cardinality(ActiveIds))
              /\ Cardinality(ids) = Len(result)
              /\ ids \subseteq ActiveIds
              /\ \A i, j \in 1..Len(result) :
                    i < j => xor_distance(result[i].node_id, target)
                               <= xor_distance(result[j].node_id, target)
              /\ \A inside \in ids, outside \in ActiveIds \ ids :
                    xor_distance(inside, target) <= xor_distance(outside, target)]_vars

\* a lookup with k = 1 answered with the peer that registered second, the
\* closer of two active peers
C14_Witness ==
    /\ dirResp.op = "closest"
    /\ Len(nodes) = 2
    /\ Len(dirResp.nodes) = 1
    /\ dirResp.nodes[1].node_id = nodes[2].node_id

\* the place of a peer id in the lexicographic order of the ids
LexRank(id) ==
    CASE id = "n1" -> 1
      [] id = "n2" -> 2
      [] id = "n3" -> 3
      [] OTHER -> 0

\* a comes before b in the order by (distance to target, peer id)
Before(a, b, target) ==
    \/ xor_distance(a, target) < xor_distance(b, target)
    \/ /\ xor_distance(a, target) = xor_distance(b, target)
       /\ LexRank(a) < LexRank(b)

HoldersIn(locs, h) == IF h \in DOMAIN locs THEN locs[h] ELSE {}

\* C16: an announce for a peer id that is not registered is answered 404 and
\* changes neither the location table nor any node record; for a registered
\* peer it adds the id to the holders of the digest and the digest to the
\* chunk set of the peer, and nothing else
C16_AnnounceKnownPeersOnly ==
    [][\A h \in DirDigests, id \in DirPeers :
         AnnounceChunk(h, id) =>
           IF id \notin NodeIds(nodes)
           THEN /\ dirResp'.status = 404
                /\ chunk_locations' = chunk_locations
                /\ nodes' = nodes
           ELSE /\ dirResp'.status = 200
                /\ DOMAIN chunk_locations' = DOMAIN chunk_locations \cup {h}
                /\ chunk_locations'[h] = HoldersIn(chunk_locations, h) \cup {id}
                /\ \A c \in DOMAIN chunk_locations \ {h} :
                      chunk_locations'[c] = chunk_locations[c]
                /\ Len(nodes') = Len(nodes)
                /\ \A i \in 1..Len(nodes) :
                      IF nodes[i].node_id = id
                      THEN nodes'[i] = [nodes[i] EXCEPT !.chunks = @ \cup {h}]
                      ELSE nodes'[i] = nodes[i]]_vars

\* an announce for an unregistered peer was refused while another peer is
\* registered and holds an announced chunk
C16_Witness ==
    /\ dirResp.op = "announce"
    /\ dirResp.status = 404
    /\ Len(nodes) = 1
    /\ nodes[1].chunks # {}
    /\ DOMAIN chunk_locations # {}

\* C17: a heartbeat for a peer id that is not registered is answered 404 and
\* changes nothing; for a registered peer it sets last_seen to the current
\* time and leaves its address, its chunk set, the other peers and the
\* location table as they were
C17_HeartbeatTouchesLastSeenOnly ==
    [][\A id \in DirPeers :
         Heartbeat(id) =>
           /\ chunk_locations' = chunk_locations
           /\ IF id \notin NodeIds(nodes)
              THEN dirResp'.status = 404 /\ nodes' = nodes
              ELSE /\ dirResp'.status = 200
                   /\ Len(nodes') = Len(nodes)
                   /\ \A i \in 1..Len(nodes) :
                         IF nodes[i].node_id = id
                         THEN nodes'[i] = [nodes[i] EXCEPT !.last_seen = now]
                         ELSE nodes'[i] = nodes[i]]_vars

\* a heartbeat refreshed a peer that holds chunks while the other registered
\* peer kept its older last_seen
C17_Witness ==
    /\ dirResp.op = "heartbeat"
    /\ dirResp.status = 200
    /\ Len(nodes) = 2
    /\ \E i, j \in 1..2 :
          /\ nodes[i].last_seen = now
          /\ nodes[i].chunks # {}
          /\ nodes[j].last_seen < now

\* C18: register is an upsert: a new peer id gets a record with last_seen
\* the current time and no chunks; a registered one keeps its record and
\* its chunk set and gets the new address and last_seen; the other peers
\* and the location table are unchanged and no id has two records
C18_RegisterIsUpsert ==
    [][\A id \in DirPeers, address \in DirAddresses :
         RegisterNode(id, address) =>
           /\ chunk_locations' = chunk_locations
           /\ Cardinality(NodeIds(nodes')) = Len(nodes')
           /\ IF id \notin NodeIds(nodes)
              THEN nodes' = Append(nodes, [node_id |-> id, address |-> address,
                                           last_seen |-> now, chunks |-> {}])
              ELSE /\ Len(nodes') = Len(nodes)
                   /\ \A i \in 1..Len(nodes) :
                         IF nodes[i].node_id = id
                         THEN nodes'[i] = [nodes[i] EXCEPT !.address = address,
                                                            !.last_seen = now]
                         ELSE nodes'[i] = nodes[i]]_vars

\* a peer that holds a chunk registered again, later and with another
\* address than the other peer, and still holds the chunk
C18_Witness ==
    /\ dirResp.op = "register"
    /\ now > 0
    /\ Len(nodes) = 2
    /\ dirResp.nodes[1].chunk_count > 0
    /\ dirResp.nodes[1].last_seen = now
    /\ dirResp.nodes[1].address # dirResp.nodes[1].node_id
    /\ \E i \in 1..2 :
          /\ nodes[i].node_id = dirResp.nodes[1].node_id
          /\ nodes[i].chunks # {}

\* ---------------------------------------------------- lifecycle claims
\* id has a record in table ns and was last seen more than the timeout before t
IsStale(ns, id, t) == id \in NodeIds(ns) /\ t - get_node(ns, id).last_seen > StaleTimeout

\* id has a record in table ns and was seen within the timeout before t
IsLive(ns, id, t) == id \in NodeIds(ns) /\ t - get_node(ns, id).last_seen <= StaleTimeout

\* after the step the record of id is a new one: seen now, no chunks, and id
\* is a holder of no digest
FreshAfter(id) ==
    /\ get_node(nodes', id).last_seen = now
    /\ get_node(nodes', id).chunks = {}
    /\ id \notin IndexedIds'

\* C19 as stated: a peer that has gone more than stale_timeout without a
\* heartbeat becomes live again only through a register, after which it has
\* no chunks and is a holder of no digest
C19_StaleReturnsOnlyByRegister ==
    [][\A id \in Fleet :
         (IsStale(nodes, id, now) /\ IsLive(nodes', id, now'))
           => (NodeStart(id) /\ FreshAfter(id))]_vars

\* C19: a record leaves the table only in a sweep that finds it stale, and
\* then the peer is a holder of no digest; a peer without a record gets one
\* only by registering, and that record has no chunks and the peer is a
\* holder of no digest; a heartbeat of a peer without a record changes nothing
C19_SweptReturnsOnlyByRegister ==
    [][\A id \in Fleet :
         /\ (id \in NodeIds(nodes) /\ id \notin NodeIds(nodes'))
               => (IsStale(nodes, id, now) /\ id \notin IndexedIds')
         /\ (id \notin NodeIds(nodes) /\ id \in NodeIds(nodes'))
               => (NodeStart(id) /\ FreshAfter(id))
         /\ (id \notin NodeIds(nodes) /\ NodeHeartbeat(id))
               => (nodes' = nodes /\ chunk_locations' = chunk_locations)]_vars

\* a node that stores chunks of a published file is registered with no chunks
\* and is a holder of no digest: it was swept and has registered again
C19_Witness ==
    /\ registry # EmptyMap
    /\ \E p \in Fleet :
          /\ DOMAIN chunk_store[p] # {}
          /\ p \in NodeIds(nodes)
          /\ get_node(nodes, p).chunks = {}
          /\ p \notin IndexedIds

\* C20: the list of active nodes holds exactly the registered peers seen at
\* most stale_timeout ago, the boundary included; and no step takes from
\* such a peer its record, a chunk of its chunk set or a place among the
\* holders of a digest, so a peer whose heartbeats are never more than
\* stale_timeout apart survives every sweep with all it held
C20_LivePeerIsKept ==
    [][/\ ListNodes =>
            {dirResp'.nodes[i].node_id : i \in 1..Len(dirResp'.nodes)} = ActiveIds
       /\ \A id \in Fleet :
            IsLive(nodes, id, now) =>
               /\ id \in NodeIds(nodes')
               /\ get_node(nodes, id).chunks \subseteq get_node(nodes', id).chunks
               /\ \A h \in DOMAIN chunk_locations :
                     id \in chunk_locations[h] =>
                        (h \in DOMAIN chunk_locations' /\ id \in chunk_locations'[h])]_vars

\* the list of active nodes, asked for exactly stale_timeout after the last
\* sign of life of a peer that holds chunks, contains that peer and its chunks
C20_Witness ==
    /\ dirResp.op = "list_nodes"
    /\ \E i \in 1..Len(dirResp.nodes) :
          /\ dirResp.at - dirResp.nodes[i].last_seen = StaleTimeout
          /\ dirResp.nodes[i].chunk_count > 0
          /\ dirResp.nodes[i].node_id \in IndexedIds

\* ------------------------------------------------------- repair claims
\* the ids in a list of node dicts
IdsIn(ds) == {ds[i].node_id : i \in 1..Len(ds)}

\* the active peers recorded as holders of digest h at the time of a call
ActiveHolders(h) == HoldersIn(chunk_locations, h) \cap ActiveIds

\* C21: repair computes needed = k - current_count from the active holders
\* of the digest; when needed <= 0 it contacts nobody and returns the empty
\* list; otherwise the peers it contacts and returns are active peers that
\* did not hold the digest, those returned are distinct and at most needed
C21_RepairContactsSpareActivePeers ==
    [][\A c \in StoredChunks :
         RepairReplication(c[1], c[2], {}) =>
           LET r == mgrResp'
               new_ids == Range(r.new_nodes)
           IN /\ r.needed = ReplicationFactor - Cardinality(ActiveHolders(c[1]))
              /\ r.needed <= 0 => (r.contacted = <<>> /\ r.new_nodes = <<>>
                                     /\ chunk_store' = chunk_store)
              /\ IdsIn(r.contacted) \subseteq ActiveIds \ ActiveHolders(c[1])
              /\ new_ids \subseteq IdsIn(r.contacted)
              /\ Cardinality(new_ids) = Len(r.new_nodes)
              /\ r.needed > 0 => Len(r.new_nodes) <= r.needed
              /\ \A p \in Peers \ IdsIn(r.contacted) :
                    chunk_store'[p] = chunk_store[p]]_vars

\* a repair that needed one more holder contacted one of two spare active
\* peers and returned it
C21_Witness ==
    /\ mgrResp.op = "repair"
    /\ mgrResp.needed = 1
    /\ Cardinality(mgrResp.holders) = 1
    /\ Len(mgrResp.candidates) = 2
    /\ Len(mgrResp.contacted) = 1
    /\ mgrResp.new_nodes = <<mgrResp.contacted[1].node_id>>

\* C22 as stated: when a repair finds fewer than k holders and at least
\* k - current_count of the active peers that do not hold the digest would
\* accept the blob, it returns exactly k - current_count new peers and an
\* assess made right after it reports meets_k
C22_RepairRestoresK ==
    (/\ mgrResp.op = "repair"
     /\ mgrResp.needed > 0
     /\ Cardinality(IdsIn(mgrResp.candidates) \cap mgrResp.answering) >= mgrResp.needed)
        => /\ Len(mgrResp.new_nodes) = mgrResp.needed
           /\ check_replication(nodes, chunk_locations, now, mgrResp.chunk_hash).meets

\* C23: assess answers with the number of active peers recorded as holders
\* of the digest and with meets_k true exactly when that number is at least k
C23_AssessCountsActiveHolders ==
    [][\A c \in StoredChunks :
         CheckReplication(c[1]) =>
           /\ mgrResp'.current = Cardinality(ActiveHolders(c[1]))
           /\ mgrResp'.meets = (mgrResp'.current >= ReplicationFactor)]_vars

\* an assess of a digest that k peers held, made after one of them fell
\* silent for more than stale_timeout, reports k - 1 holders and not meets_k
C23_Witness ==
    /\ mgrResp.op = "assess"
    /\ mgrResp.current = ReplicationFactor - 1
    /\ ~mgrResp.meets
    /\ Cardinality({p \in Peers : mgrResp.chunk_hash \in DOMAIN chunk_store[p]})
          = ReplicationFactor
    /\ now > StaleTimeout

\* the list of node dicts ds is in ascending order of distance to digest h,
\* and none of the ids in others is strictly closer to h than a node of ds
NearestFirst(ds, others, h) ==
    /\ \A i, j \in 1..Len(ds) :
          i < j => chunk_distance(ds[i].node_id, h) <= chunk_distance(ds[j].node_id, h)
    /\ \A i \in 1..Len(ds), o \in others \ IdsIn(ds) :
          chunk_distance(ds[i].node_id, h) <= chunk_distance(o, h)

\* C24 as stated: the peers that place contacts for a digest are the active
\* peers nearest to the digest by XOR distance, nearest first, and so are
\* the peers that repair contacts among its candidates
C24_CandidatesNearestFirst ==
    /\ gwResp.op = "upload" =>
          \A i \in 1..Len(gwResp.placements) :
              NearestFirst(gwResp.placements[i].contacted, NodeIds(nodes),
                           gwResp.placements[i].chunk_hash)
    /\ mgrResp.op = "repair" =>
          NearestFirst(mgrResp.contacted, IdsIn(mgrResp.candidates), mgrResp.chunk_hash)

\* in one call that contacted the nodes ds, no node was contacted twice, and
\* every node contacted after one that did not accept was still sent the
\* blob: if it accepts it is among the returned ids and stores h
AdvancesPastRejections(ds, returned, answering, h) ==
    /\ Cardinality(IdsIn(ds)) = Len(ds)
    /\ \A i, j \in 1..Len(ds) :
          (i < j /\ ds[i].address \notin answering /\ ds[j].address \in answering)
             => /\ ds[j].node_id \in Range(returned)
                /\ h \in DOMAIN chunk_store[ds[j].address]

stats(dir) == <<chunk_count(dir), total_size(dir)>>

\* C26: a store of (d, b) with H(b) = d answers "stored" and writes b when d
\* is absent and answers "already_exists" when d is present; the store of a
\* present digest leaves the bytes, list() and stats() as they were
C26_StoreIsIdempotent ==
    [][\A p \in StorePeers, data \in StoreBlobs :
         StoreChunk(p, sha256_hash(data), data) =>
           LET chunk_hash == sha256_hash(data)
               before == chunk_store[p]
               after == chunk_store'[p]
           IN /\ nodeResp'.status = 200
              /\ chunk_hash \notin DOMAIN before =>
                    /\ nodeResp'.result = "stored"
                    /\ retrieve(after, chunk_hash) = [found |-> TRUE, data |-> data]
              /\ chunk_hash \in DOMAIN before =>
                    /\ nodeResp'.result = "already_exists"
                    /\ retrieve(after, chunk_hash) = retrieve(before, chunk_hash)
                    /\ list_chunks(after) = list_chunks(before)
                    /\ stats(after) = stats(before)]_vars

\* a node answered "already_exists" to the store of a blob that it holds
\* under its digest
C26_Witness ==
    /\ nodeResp.op = "store"
    /\ nodeResp.result = "already_exists"
    /\ nodeResp.chunk_hash \in DOMAIN chunk_store[nodeResp.node]
    /\ sha256_hash(chunk_store[nodeResp.node][nodeResp.chunk_hash]) = nodeResp.chunk_hash

\* C27: a store of (d, b) with H(b) # d is answered with the digest mismatch
\* (status 400), whether or not a file is stored under d, and it leaves the
\* chunk store as it was
C27_MismatchAlwaysFails ==
    [][\A p \in StorePeers, chunk_hash \in StoreDigests, data \in StoreBlobs :
         (StoreChunk(p, chunk_hash, data) /\ sha256_hash(data) # chunk_hash) =>
           /\ nodeResp'.result = "mismatch"
           /\ nodeResp'.status = 400
           /\ chunk_store' = chunk_store]_vars

\* every listed digest is the hash of the bytes that retrieve returns for it
ListedAreAddressed ==
    \A p \in StorePeers : \A d \in list_chunks(chunk_store[p]) :
        /\ retrieve(chunk_store[p], d).found
        /\ sha256_hash(retrieve(chunk_store[p], d).data) = d

\* a digest comes into a store only by a store request answered "stored", it
\* is gone after a delete answered 200, and a retrieve answers 404 exactly
\* for a digest that is not in the store and the stored bytes otherwise
AbsentUnlessStored ==
    /\ \A p \in StorePeers : \A d \in DOMAIN chunk_store'[p] \ DOMAIN chunk_store[p] :
           nodeResp' = NodeResp("store", p, d, 200, "stored", EmptyFile, {}, 0, 0)
    /\ (nodeResp'.op = "delete" /\ nodeResp'.status = 200) =>
           nodeResp'.chunk_hash \notin list_chunks(chunk_store'[nodeResp'.node])
    /\ nodeResp'.op = "retrieve" =>
           IF nodeResp'.chunk_hash \in DOMAIN chunk_store[nodeResp'.node]
           THEN /\ nodeResp'.status = 200
                /\ nodeResp'.data = chunk_store[nodeResp'.node][nodeResp'.chunk_hash]
           ELSE nodeResp'.status = 404

\* C28 (P-ADDR): through store, retrieve and delete requests every digest d
\* in list() satisfies H(retrieve(d)) = d; the stores start empty, and
\* retrieve(d) is NotFound for a d that was not stored since the start or
\* since its last delete
C28_ContentAddressed ==
    /\ \A p \in Peers : list_chunks(chunk_store[p]) = {}
    /\ []ListedAreAddressed
    /\ [][AbsentUnlessStored]_vars

\* a node deleted one of its chunks and still lists another one
C28_Witness ==
    /\ nodeResp.op = "delete"
    /\ nodeResp.status = 200
    /\ nodeResp.chunk_hash \notin list_chunks(chunk_store[nodeResp.node])
    /\ list_chunks(chunk_store[nodeResp.node]) # {}

\* directory dir does not show digest chunk_hash: retrieve finds nothing,
\* list() does not name it and a store of the blob would answer "stored"
NotPresent(dir, chunk_hash, data) ==
    /\ ~retrieve(dir, chunk_hash).found
    /\ chunk_hash \notin list_chunks(dir)
    /\ store(dir, chunk_hash, data).result = "stored"

\* C29: when the process of a node stops while a store request is writing
\* its blob, the node is left as if the digest were not present, unless
\* another request has stored the whole blob under that digest
C29_InterruptedStoreLeavesNothing ==
    [][\A p \in StorePeers : NodeStop(p) =>
         \A c \in InFlight(p) :
            LET chunk_hash == calls[c].chunk_hash
                dir == chunk_store'[p]
            IN \/ NotPresent(dir, chunk_hash, calls[c].data)
               \/ /\ chunk_hash \in DOMAIN dir
                  /\ dir[chunk_hash] = calls[c].data]_vars

\* the store requests for blob data under its own digest on node p
CallsFor(p, data) ==
    {c \in CallIds : /\ calls[c].node = p
                     /\ calls[c].data = data
                     /\ calls[c].chunk_hash = sha256_hash(data)}

\* C30: of the overlapping store requests for one blob under its digest on
\* one node each is answered "stored" or "already_exists", and when all of
\* them are answered the node holds exactly that blob under the digest
C30_OverlappingStoresAgree ==
    \A data \in StoreBlobs :
        LET mine == CallsFor("n1", data)
        IN /\ \A c \in mine : calls[c].pc = "done" =>
                  calls[c].result \in {"stored", "already_exists"}
           /\ (mine # {} /\ \A c \in mine : calls[c].pc = "done") =>
                  retrieve(chunk_store["n1"], sha256_hash(data)) =
                      [found |-> TRUE, data |-> data]

\* two requests for the same blob both found the digest absent, both wrote
\* the file and both were answered "stored"
C30_Witness ==
    \E data \in StoreBlobs :
        /\ Cardinality(CallsFor("n1", data)) >= 2
        /\ \A c \in CallsFor("n1", data) :
               calls[c].pc = "done" /\ calls[c].result = "stored"

\* ------------------------------------------------------------ audit claims
\* the blobs a verifier may hold: the ones sent to the nodes and their
\* overwritten forms
AuditBlobs == StoreBlobs \cup {[blob EXCEPT !.pt = Append(@, 0)] : blob \in StoreBlobs}

\* C31: prove(d, nonce) on a node answers 404 when the node stores nothing
\* under d and otherwise H(blob || utf8(nonce)) for the bytes it stores under
\* d now; verify_por(blob, nonce, proof) accepts exactly the proof that is
\* H(blob || utf8(nonce))
C31_ProofIsHashOfBlobAndNonce ==
    [][\A p \in StorePeers, chunk_hash \in StoreDigests, challenge \in Nonces :
         ProveChunk(p, chunk_hash, challenge) =>
           IF chunk_hash \notin DOMAIN chunk_store[p]
           THEN nodeResp'.status = 404
           ELSE /\ nodeResp'.status = 200
                /\ nodeResp'.proof =
                       sha256(Bytes(chunk_store[p][chunk_hash]) \o utf8(challenge))
                /\ \A blob \in AuditBlobs, nonce \in Nonces :
                       verify_por(blob, nonce, nodeResp'.proof) <=>
                           nodeResp'.proof = sha256(Bytes(blob) \o utf8(nonce))]_vars

\* a node proved a chunk whose file had been overwritten: the proof is over
\* the bytes it holds now, with the two UTF-8 bytes of the character 233
C31_Witness ==
    /\ nodeResp.op = "prove"
    /\ nodeResp.status = 200
    /\ nodeResp.challenge = <<49, 233>>
    /\ LET held == chunk_store[nodeResp.node][nodeResp.chunk_hash]
       IN /\ sha256_hash(held) # nodeResp.chunk_hash
          /\ nodeResp.proof = sha256(Bytes(held)) \o <<49, 195, 169>>

\* the blob whose digest is chunk_hash, which a verifier that keeps the
\* blobs holds
BlobOf(chunk_hash) ==
    [iv |-> chunk_hash[2], key |-> chunk_hash[3],
     pt |-> SubSeq(chunk_hash, 4, Len(chunk_hash))]

\* C32: an audit reports the answer of a node to a challenge as valid
\* exactly when the answer is H(blob || nonce) for the challenged blob
C32_ValidOnlyIfProofMatchesBlob ==
    gwResp.op = "verify" =>
        \A r \in gwResp.chunk_proofs :
            r.is_valid <=> verify_por(BlobOf(r.chunk_hash), r.challenge, r.proof)

C34_ProofVerifiesOnlyTheLeaf ==
    probe.fn = "verified" =>
        LET leaf == probe.hashes[probe.index + 1]
        IN /\ (probe.leaf_hash = leaf /\ probe.expected_root = probe.root)
                  => probe.is_valid
           /\ (probe.leaf_hash # leaf /\ probe.expected_root = probe.root)
                  => ~probe.is_valid
           /\ (probe.leaf_hash = leaf /\ probe.expected_root # probe.root)
                  => ~probe.is_valid

\* the last leaf of a list of three, which is paired with itself, was
\* verified against the root
C34_Witness ==
    /\ probe.fn = "verified"
    /\ Len(probe.hashes) = 3
    /\ probe.index = 2
    /\ probe.leaf_hash = probe.hashes[3]
    /\ probe.expected_root = probe.root
    /\ probe.is_valid

\* C35: two different non-empty lists of hashes have different roots, and a
\* list built twice has the same root both times
C35_DifferentListsDifferentRoots ==
    probe.fn = "two_roots" =>
        /\ probe.root = probe.again
        /\ probe.hashes # probe.other => probe.root # probe.other_root

\* ----------------------------------------------------------- chunker claims
\* C36 (P-ROUNDTRIP): split fails exactly on empty input or a chunk size
\* that is not positive; otherwise it returns ceil(|x| / S) chunks, all of
\* size S except the last, which has 1 to S bytes, and the chunks joined in
\* order are x
C36_SplitJoinRoundTrip ==
    /\ probe.fn \in {"split_error", "chunks"} =>
          (probe.fn = "split_error" <=> (probe.data = <<>> \/ probe.chunk_size <= 0))
    /\ probe.fn \in {"chunks", "joined"} =>
          LET n == Len(probe.chunks)
              S == probe.chunk_size
          IN /\ n = (Len(probe.data) + S - 1) \div S
             /\ \A i \in 1..(n - 1) : Len(probe.chunks[i]) = S
             /\ Len(probe.chunks[n]) \in 1..S
    /\ probe.fn # "join_error"
    /\ probe.fn = "joined" => probe.joined = probe.data

\* three bytes were split into a chunk of two and a chunk of one and joined
C36_Witness ==
    /\ probe.fn = "joined"
    /\ Len(probe.data) = 3
    /\ probe.chunk_size = 2
    /\ Len(probe.chunks) = 2
    /\ probe.joined = probe.data

\* -------------------------------------------------------- encryption claims
\* C37 (P-CRYPTO-RT): encrypt fails exactly when the key does not have 32
\* bytes, decrypt fails on a key that does not have 32 bytes, and decrypt
\* under the key of the encryption returns the chunk, the empty chunk included
C37_EncryptDecryptRoundTrip ==
    /\ probe.fn \in {"encrypt_error", "encrypted"} =>
          (probe.fn = "encrypt_error" <=> Len(probe.key) # KEY_SIZE)
    /\ probe.fn = "decrypted" =>
          /\ Len(probe.used_key) # KEY_SIZE => (~probe.ok /\ probe.error = "key")
          /\ probe.used_key = probe.key => (probe.ok /\ probe.plaintext = probe.data)

\* the empty chunk came back from decrypt under the key of its encryption
C37_Witness ==
    /\ probe.fn = "decrypted"
    /\ probe.data = <<>>
    /\ probe.used_key = probe.key
    /\ probe.ok
    /\ probe.plaintext = <<>>

\* ---------------------------------------------------- placement claims
\* C38: in place and in repair a peer is returned only if its store was
\* answered 2xx and the announce that followed reached the tracker, and
\* every returned peer is then among the recorded holders of the digest; a
\* contacted peer whose store succeeded and whose announce failed holds the
\* blob, is not returned, and is a recorded holder only if it was one before
C38_ReturnedOnlyIfStoredAndAnnounced ==
    [][\A c \in PlacedChunks, lost \in SUBSET LossyPeers :
         (PlaceChunk(c[1], c[2], lost) \/ RepairReplication(c[1], c[2], lost)) =>
           LET r == mgrResp'
               returned == Range(r.new_nodes)
               stored == IdsIn(r.contacted) \cap r.answering
           IN /\ returned = stored \ lost
              /\ returned \subseteq HoldersIn(chunk_locations', c[1])
              /\ \A p \in stored \cap lost :
                    /\ retrieve(chunk_store'[p], c[1]) = [found |-> TRUE, data |-> c[2]]
                    /\ p \notin returned
                    /\ p \in HoldersIn(chunk_locations', c[1]) =>
                          p \in HoldersIn(chunk_locations, c[1])]_vars

\* a call contacted two peers that both stored the blob; the announce of one
\* failed: that one holds the blob, is not returned and is not a recorded
\* holder, the other is returned
C38_Witness ==
    /\ mgrResp.op \in {"place", "repair"}
    /\ Len(mgrResp.new_nodes) = 1
    /\ \E p \in (IdsIn(mgrResp.contacted) \cap mgrResp.answering) \ Range(mgrResp.new_nodes) :
          /\ mgrResp.chunk_hash \in DOMAIN chunk_store[p]
          /\ p \notin HoldersIn(chunk_locations, mgrResp.chunk_hash)
\* ---------------------------------------------------- agreement claims
\* what GET /chunks/{h}/locations answers in the current state
Located(h) ==
    LET swept == remove_stale_nodes(nodes, chunk_locations, now)
    IN DictList(LocationsOf(swept.nodes, swept.locs, h))

\* C39 as stated: in every reachable state every peer that locate(d) returns
\* holds d in its chunk store, also after a DELETE /chunks/{d} on the peer
\* and after announces sent to the tracker by any caller
C39_LocatedPeersHoldChunk ==
    \A c \in PlacedChunks :
        \A i \in 1..Len(Located(c[1])) :
            retrieve(chunk_store[Located(c[1])[i].address], c[1]).found
\* ---------------------------------------------------- membership claims
\* C40 as stated: a running node that is not in the tracker's table, because
\* its registration at startup failed or because it was evicted, is
\* eventually among the active peers again, unless it stops
C40_RunningNodeRejoins ==
    \A p \in Fleet :
        (running[p] /\ p \notin NodeIds(nodes)) ~> (p \in ActiveIds \/ ~running[p])
====
